---------------------------- MODULE Spec2Model ----------------------------
(***************************************************************************)
(* Admin dashboard of a file server: the API client with its 401           *)
(* interceptor, the session store (AuthProvider), the games page with its  *)
(* game form, the tags page and the users page.                            *)
(*                                                                         *)
(* Execution is single threaded: every action below is one event handler   *)
(* run to its first await, or one continuation of a handler that resumes   *)
(* when a response arrives, together with the React effects its state      *)
(* changes trigger.                                                        *)
(***************************************************************************)
EXTENDS Naturals, Sequences, FiniteSets

(***************************************************************************)
(* Bounds of the model.                                                    *)
(***************************************************************************)
\* positions of a list the admin acts on, and the longest list a response carries
MaxLen == 2
\* requests a page has in flight at a time
MaxFetch == 2
\* overlapping fetchTags calls of the game form
MaxTagFetch == 1
\* overlapping handleDeleteGame calls of the games page
MaxDeletes == 2
\* tags the backend creates
MaxCreated == 1
\* subscription updates the backend applies
MaxToggles == 2

(***************************************************************************)
(* Values.                                                                 *)
(***************************************************************************)
Undefined == "<undefined>"
NoToken == "<none>"
NoFile == "<null>"
LoginRoute == "/login"
GamesRoute == "/dashboard/games"
TagsRoute == "/dashboard/tags"
UsersRoute == "/dashboard/users"
DashboardRoutes == {GamesRoute, TagsRoute, UsersRoute}
NoId == "<null>"

\* HTTP statuses of a failed request: 401 and one other failure
Unauthorized == 401
FailStatuses == {Unauthorized, 500}

\* Text is a sequence of characters; the alphabet has both cases of a letter.
Lower(c) == CASE c = "A" -> "a" [] c = "B" -> "b" [] OTHER -> c

toLowerCase(s) == [i \in DOMAIN s |-> Lower(s[i])]

includes(s, sub) ==
    \E i \in 0..(Len(s) - Len(sub)) : SubSeq(s, i + 1, i + Len(sub)) = sub

Range(s) == {s[i] : i \in DOMAIN s}

\* the prefixes of s that are at most n long
Prefixes(s, n) == {SubSeq(s, 1, k) : k \in {j \in 0..Len(s) : j <= n}}

SearchTerms == {<<>>, <<"a">>, <<"B">>}

(***************************************************************************)
(* Tag references as the backend sends them inside a game: a bare id, an   *)
(* embedded tag object (whose _id may be missing), null or undefined.      *)
(***************************************************************************)
IdRef(t) == [kind |-> "id", id |-> t]
ObjRef(t) == [kind |-> "object", id |-> t]
NullRef == [kind |-> "null", id |-> Undefined]
UndefRef == [kind |-> "undefined", id |-> Undefined]

NotNullish(tag) == tag.kind # "null" /\ tag.kind # "undefined"

(***************************************************************************)
(* Tags as the backend sends them. "t3" names a tag deleted since it was   *)
(* assigned to a game; TagNoId is a sparse record without _id.             *)
(***************************************************************************)
Tag(tid, nm, bt) == [_id |-> tid, id |-> Undefined, name |-> nm, belongsTo |-> bt]

Tag1 == Tag("t1", <<"A", "b">>, "Game")
Tag2 == Tag("t2", <<"b">>, "Software")
TagNoId == Tag(Undefined, <<"a">>, Undefined)

TagLists == Prefixes(<<Tag1, Tag2>>, MaxLen) \cup {<<Tag2, TagNoId>>}

(***************************************************************************)
(* Game records as the backend sends them.                                 *)
(***************************************************************************)
RawGame(gid, fid, ttl, desc, mt, img, ats) ==
    [_id |-> gid, id |-> fid, title |-> ttl, description |-> desc,
     imageUrl |-> img, mainTag |-> mt, additionalTags |-> ats]

GameA == RawGame("g1", Undefined, <<"A", "b">>, <<"x">>, "Game", <<"a">>,
                 <<IdRef("t1"), NullRef, IdRef("t3")>>)
GameB == RawGame("g2", Undefined, <<"b">>, <<"B", "a">>, "Software",
                 <<"/", "u", "/", "b">>, <<ObjRef("t2"), UndefRef>>)
GameC == RawGame("g1", Undefined, <<"a">>, <<"y">>, "Game",
                 <<"h", "t", "t", "p", ":", "/", "/", "x">>, <<>>)

NoGame == [_id |-> "<null>"]

\* GameC is what the backend holds for g1 once it was edited
GameLists == Prefixes(<<GameA, GameB, GameC>>, MaxLen) \cup {<<GameC, GameB>>}

(***************************************************************************)
(* User records as the backend sends them. A text that is missing or empty *)
(* is the empty sequence: the code tests both with `user.username &&`.     *)
(***************************************************************************)
User(uid, un, em, sub) ==
    [_id |-> uid, id |-> <<>>, username |-> un, email |-> em, isSubscribed |-> sub]

UserA == User(<<"u", "1">>, <<"A", "b">>, <<"x">>, TRUE)
UserAOff == User(<<"u", "1">>, <<"A", "b">>, <<"x">>, FALSE)
UserB == User(<<"b", "2">>, <<>>, <<"B">>, FALSE)

UserLists == Prefixes(<<UserA, UserB>>, MaxLen) \cup {<<UserAOff, UserB>>}

\* A list response: a bare array, an envelope {success, data}, or an
\* envelope without data.
Bare(l) == [shape |-> "array", hasData |-> TRUE, data |-> l]
Envelope(l) == [shape |-> "envelope", hasData |-> TRUE, data |-> l]
EnvelopeNoData == [shape |-> "envelope", hasData |-> FALSE, data |-> <<>>]

GameResponses ==
    {Bare(l) : l \in GameLists} \cup {Envelope(<<GameA, GameB>>), EnvelopeNoData}

TagResponses ==
    {Bare(l) : l \in TagLists} \cup {Envelope(<<Tag2, TagNoId>>), EnvelopeNoData}

UserResponses ==
    {Bare(l) : l \in UserLists} \cup {Envelope(<<UserB, UserA>>), EnvelopeNoData}

\* the tag responses the games page's specifications draw from
PageTagResponses == {Bare(<<Tag1, Tag2>>), EnvelopeNoData}

\* the responses the game form's specification draws from
FormGameResponses == {Bare(<<GameA>>)}
FormTagResponses == {Bare(<<Tag1>>), Bare(<<TagNoId>>), Envelope(<<>>)}

isArray(r) == r.shape = "array"

\* What a request in flight holds of its answer: nothing yet, or the body of a
\* 2xx response on its way to the client (a list response, or the
\* acknowledgement of a create, delete or update).
NoReply == [shape |-> "none"]
Done == [shape |-> "done"]

\* the requests of a set of calls, whatever was answered
Requests(calls) == {[c EXCEPT !.reply = NoReply] : c \in calls}

\* `response.data || []`
dataOrEmpty(r) == IF r.hasData THEN r.data ELSE <<>>

(***************************************************************************)
(* The API client (lib/api).                                               *)
(***************************************************************************)
API_BASE_URL == <<"h", "t", "t", "p", ":", "/", "/", "h", "/">>

startsWith(s, pre) == Len(s) >= Len(pre) /\ SubSeq(s, 1, Len(pre)) = pre

\* `API_BASE_URL.replace(/\/$/, "")`
stripTrailingSlash(s) ==
    IF s # <<>> /\ s[Len(s)] = "/" THEN SubSeq(s, 1, Len(s) - 1) ELSE s

\* getImageUrl joining the base as it is configured, trailing slash included
getImageUrlKeepingSlash(imagePath) ==
    IF imagePath = <<>> THEN <<>>
    ELSE IF startsWith(imagePath, <<"h", "t", "t", "p", ":", "/", "/">>)
            \/ startsWith(imagePath, <<"h", "t", "t", "p", "s", ":", "/", "/">>)
         THEN imagePath
    ELSE IF startsWith(imagePath, <<"/">>)
         THEN API_BASE_URL \o imagePath
    ELSE API_BASE_URL \o <<"/", "u", "p", "l", "o", "a", "d", "s", "/">> \o imagePath

getImageUrl(imagePath) ==
    IF imagePath = <<>> THEN <<>>
    ELSE IF startsWith(imagePath, <<"h", "t", "t", "p", ":", "/", "/">>)
            \/ startsWith(imagePath, <<"h", "t", "t", "p", "s", ":", "/", "/">>)
         THEN imagePath
    ELSE IF startsWith(imagePath, <<"/">>)
         THEN stripTrailingSlash(API_BASE_URL) \o imagePath
    ELSE stripTrailingSlash(API_BASE_URL)
             \o <<"/", "u", "p", "l", "o", "a", "d", "s", "/">> \o imagePath

\* `game._id || game.id`
idOf(game) == IF game._id # Undefined /\ game._id # "" THEN game._id ELSE game.id

\* one game of a bare-array response as getGames returns it
normalizeGame(game) ==
    [game EXCEPT !.id = idOf(game),
                 !.additionalTags = SelectSeq(game.additionalTags, NotNullish)]

\* ApiClient.getGames: what the caller receives for a response body
getGames(body) ==
    IF isArray(body)
    THEN [body EXCEPT !.data = [i \in DOMAIN body.data |-> normalizeGame(body.data[i])]]
    ELSE body

\* ApiClient.getAdditionalTags: what the caller receives for a response body
getAdditionalTags(body) ==
    IF isArray(body)
    THEN [body EXCEPT !.data =
              [i \in DOMAIN body.data |->
                  [body.data[i] EXCEPT !.id = idOf(body.data[i])]]]
    ELSE body

\* ApiClient.getUsers: what the caller receives for a response body
getUsers(body) ==
    IF isArray(body)
    THEN [body EXCEPT !.data =
              [i \in DOMAIN body.data |->
                  [body.data[i] EXCEPT
                      !.id = IF body.data[i]._id # <<>> THEN body.data[i]._id
                             ELSE body.data[i].id]]]
    ELSE body

\* ApiClient.createAdditionalTag(name): the body it posts. The method has one
\* parameter; a second argument of a call is bound to nothing.
createAdditionalTag(name) == [name |-> name]

\* ApiClient.deleteAdditionalTag(id): the body it sends with the DELETE
deleteAdditionalTag(id) == [id |-> id]

\* ApiClient.setSubscription(userId, isSubscribed): the body it puts
setSubscription(userId, isSubscribed) == [id |-> userId, isSubscribed |-> isSubscribed]

\* `Array.isArray(response) ? response : response.data || []`
collectionOf(response) ==
    IF isArray(response) THEN response.data ELSE dataOrEmpty(response)

(***************************************************************************)
(* State.                                                                  *)
(***************************************************************************)
VARIABLES
    \* the browser: the admin_token cookie, the route shown, and whether an
    \* assignment to window.location.href awaits its navigation
    cookie, location, navPending,
    \* AuthProvider
    isAuthenticated, authLoading,
    \* GamesPage
    games, filteredGames, tags, gamesLoading, showForm, selectedGame,
    searchTerm, selectedMainTag,
    \* GamesPage: fetchData calls in flight, handleDeleteGame calls in flight
    \* (each with the arguments and the `games` its closure holds), and the
    \* message of the last toast.error call
    fetches, deletes, toastError,
    \* GameForm
    formData, availableTags, formLoading, uploading, formError, selectedFile,
    previewUrl,
    \* GameForm: the handleSubmit call in flight and the fetchTags calls in flight
    submit, tagFetches,
    \* TagsPage and UsersPage: a record of the component's state variables, and
    \* `calls`, the requests of its handlers in flight
    tagsPage, usersPage,
    \* the AuthProvider.login call in flight
    loginCall,
    \* the backend the API client talks to: the collections it stores
    backend

browserVars == <<cookie, location, navPending>>
authVars == <<isAuthenticated, authLoading>>
listVars == <<games, filteredGames, tags, gamesLoading, searchTerm, selectedMainTag>>
openVars == <<showForm, selectedGame>>
pageReqVars == <<fetches, deletes>>
formVars == <<formData, availableTags, formLoading, uploading, formError,
              selectedFile, previewUrl, submit, tagFetches>>
gamesPageVars == <<listVars, openVars, pageReqVars, toastError, formVars>>
otherPageVars == <<tagsPage, usersPage, loginCall, backend>>
vars == <<browserVars, authVars, gamesPageVars, otherPageVars>>

(***************************************************************************)
(* The response interceptor: a 401 removes the cookie and assigns          *)
(* window.location.href; every failure is then rejected to the caller.     *)
(***************************************************************************)
Intercept(status) ==
    IF status = Unauthorized
    THEN /\ cookie' = NoToken
         /\ navPending' = TRUE
    ELSE /\ cookie' = cookie
         /\ navPending' = navPending


(***************************************************************************)
(* GamesPage (app/dashboard/games/page).                                   *)
(***************************************************************************)
\* MatchesSearch comparing the texts as they are
MatchesSearchCaseSensitive(game, term) ==
    \/ includes(game.title, term)
    \/ includes(game.description, term)

MatchesSearch(game, term) ==
    \/ includes(toLowerCase(game.title), toLowerCase(term))
    \/ includes(toLowerCase(game.description), toLowerCase(term))

\* filterGames, as the effect on [games, searchTerm, selectedMainTag] runs it
filterGames(gs, term, mainTag) ==
    LET bySearch ==
            IF term # <<>>
            THEN SelectSeq(gs, LAMBDA g : MatchesSearch(g, term))
            ELSE gs
    IN  IF mainTag # "all"
        THEN SelectSeq(bySearch, LAMBDA g : g.mainTag = mainTag)
        ELSE bySearch

\* `games.filter(game => game._id !== gameId)`
withoutGame(gs, gameId) == SelectSeq(gs, LAMBDA g : g._id # gameId)

FetchFailedToast == "Failed to fetch games data"
DeleteFailedToast == "Failed to delete game"

GamesMounted == location = GamesRoute

\* the page's buttons and inputs: rendered once loading is over, and covered
\* by the form's modal overlay while the form is open
\* The admin acts on a page that is not being replaced by a navigation.
GamesInteractive == GamesMounted /\ ~navPending /\ ~gamesLoading /\ ~showForm

\* the form's buttons and inputs
FormInteractive == GamesMounted /\ ~navPending /\ showForm

\* fetchData called: by the mount effect and by handleFormSave
IssueFetchData == fetches' = fetches + 1

\* fetchData resumes with both responses of its Promise.all
FetchDataOk(gamesBody, tagsBody) ==
    /\ GamesMounted
    /\ fetches > 0
    /\ fetches' = fetches - 1
    /\ games' = collectionOf(getGames(gamesBody))
    /\ tags' = collectionOf(getAdditionalTags(tagsBody))
    /\ filteredGames' = filterGames(games', searchTerm, selectedMainTag)
    /\ gamesLoading' = FALSE
    /\ UNCHANGED <<browserVars, authVars, otherPageVars, searchTerm, selectedMainTag, openVars,
                   deletes, toastError, formVars>>

\* FetchDataFail with a catch that stays silent on a 401
FetchDataFailSilent401(status) ==
    /\ GamesMounted
    /\ fetches > 0
    /\ fetches' = fetches - 1
    /\ Intercept(status)
    /\ toastError' = IF status = Unauthorized THEN toastError ELSE FetchFailedToast
    /\ gamesLoading' = FALSE
    /\ UNCHANGED <<location, authVars, otherPageVars, games, filteredGames, tags, searchTerm,
                   selectedMainTag, openVars, deletes, formVars>>

\* FetchDataFail with a catch that empties the list
FetchDataFailClearing(status) ==
    /\ GamesMounted
    /\ fetches > 0
    /\ fetches' = fetches - 1
    /\ Intercept(status)
    /\ toastError' = FetchFailedToast
    /\ gamesLoading' = FALSE
    /\ games' = <<>>
    /\ filteredGames' = <<>>
    /\ UNCHANGED <<location, authVars, otherPageVars, tags, searchTerm,
                   selectedMainTag, openVars, deletes, formVars>>

\* FetchDataFail for two requests awaited one after the other: the games
\* response is installed before the tags request fails
FetchDataFailAfterGames(status) ==
    /\ GamesMounted
    /\ fetches > 0
    /\ fetches' = fetches - 1
    /\ Intercept(status)
    /\ toastError' = FetchFailedToast
    /\ gamesLoading' = FALSE
    /\ games' = collectionOf(getGames(Bare(<<GameC>>)))
    /\ filteredGames' = filterGames(games', searchTerm, selectedMainTag)
    /\ UNCHANGED <<location, authVars, otherPageVars, tags, searchTerm,
                   selectedMainTag, openVars, deletes, formVars>>

\* fetchData resumes in its catch: one request of the Promise.all failed
FetchDataFail(status) ==
    /\ GamesMounted
    /\ fetches > 0
    /\ fetches' = fetches - 1
    /\ Intercept(status)
    /\ toastError' = FetchFailedToast
    /\ gamesLoading' = FALSE
    /\ UNCHANGED <<location, authVars, otherPageVars, games, filteredGames, tags, searchTerm,
                   selectedMainTag, openVars, deletes, formVars>>

\* the search box
SetSearchTerm(term) ==
    /\ GamesInteractive
    /\ searchTerm' = term
    /\ filteredGames' = filterGames(games, term, selectedMainTag)
    /\ UNCHANGED <<browserVars, authVars, otherPageVars, games, tags, gamesLoading,
                   selectedMainTag, openVars, pageReqVars, toastError, formVars>>

\* the type selector
SetSelectedMainTag(mainTag) ==
    /\ GamesInteractive
    /\ selectedMainTag' = mainTag
    /\ filteredGames' = filterGames(games, searchTerm, mainTag)
    /\ UNCHANGED <<browserVars, authVars, otherPageVars, games, tags, gamesLoading, searchTerm,
                   openVars, pageReqVars, toastError, formVars>>

\* HandleDeleteGame sending the request whatever window.confirm answered
HandleDeleteGameUnasked(i, confirmed) ==
    /\ GamesInteractive
    /\ i \in DOMAIN filteredGames
    /\ LET call == [gameId |-> filteredGames[i].id, games |-> games]
       IN  /\ call \notin deletes
           /\ Cardinality(deletes) < MaxDeletes
           /\ deletes' = deletes \cup {call}
    /\ UNCHANGED <<browserVars, authVars, otherPageVars, listVars, openVars, fetches,
                   toastError, formVars>>

\* handleDeleteGame(game.id, game.title) from the card at position i, up to
\* its await; a declined window.confirm ends the handler
HandleDeleteGame(i, confirmed) ==
    /\ GamesInteractive
    /\ i \in DOMAIN filteredGames
    /\ LET call == [gameId |-> filteredGames[i].id, games |-> games]
       IN  IF confirmed
           THEN /\ call \notin deletes
                /\ Cardinality(deletes) < MaxDeletes
                /\ deletes' = deletes \cup {call}
           ELSE deletes' = deletes
    /\ UNCHANGED <<browserVars, authVars, otherPageVars, listVars, openVars, fetches,
                   toastError, formVars>>

\* handleDeleteGame resumes after apiClient.deleteGame resolved
DeleteGameOk(call) ==
    /\ GamesMounted
    /\ call \in deletes
    /\ deletes' = deletes \ {call}
    /\ games' = withoutGame(call.games, call.gameId)
    /\ filteredGames' = filterGames(games', searchTerm, selectedMainTag)
    /\ UNCHANGED <<browserVars, authVars, otherPageVars, tags, gamesLoading, searchTerm,
                   selectedMainTag, openVars, fetches, toastError, formVars>>

\* handleDeleteGame resumes in its catch
DeleteGameFail(call, status) ==
    /\ GamesMounted
    /\ call \in deletes
    /\ deletes' = deletes \ {call}
    /\ Intercept(status)
    /\ toastError' = DeleteFailedToast
    /\ UNCHANGED <<location, authVars, otherPageVars, listVars, openVars, fetches, formVars>>


(***************************************************************************)
(* GameForm (components/Games/GameForm).                                   *)
(***************************************************************************)
\* The draft: of its text fields the title stands for description, path and
\* youtubeLink too, which the form copies, edits and submits the same way.
EmptyForm ==
    [title |-> <<>>, imageUrl |-> <<>>, mainTag |-> "Game",
     additionalTags |-> <<>>]

\* a tag object with an _id becomes its _id; anything else is kept as it is
tagIdOf(tag) ==
    IF tag.kind = "object" /\ tag.id # Undefined THEN IdRef(tag.id) ELSE tag

\* the tag ids the open effect extracts from game.additionalTags
tagIdsOf(game) ==
    LET kept == SelectSeq(game.additionalTags, NotNullish)
    IN  [i \in DOMAIN kept |-> tagIdOf(kept[i])]

\* the draft the open effect sets for an existing game
formOfGame(game) ==
    [title |-> game.title, imageUrl |-> game.imageUrl, mainTag |-> game.mainTag,
     additionalTags |-> tagIdsOf(game)]

\* a tag's _id as an entry of formData.additionalTags
ToRef(tid) == IF tid = Undefined THEN UndefRef ELSE IdRef(tid)

validTagIds(avail) == {ToRef(avail[i]._id) : i \in DOMAIN avail}

\* whether the clean-up effect prunes for this tag list
PrunesFor(avail) == Len(avail) > 0

\* cleanUpTags pruning whether or not a game is being edited
cleanUpTagsAlways(fd, avail, game) ==
    [fd EXCEPT !.additionalTags =
        SelectSeq(fd.additionalTags, LAMBDA r : r \in validTagIds(avail))]

\* the clean-up effect on [availableTags, game]
cleanUpTags(fd, avail, game) ==
    IF PrunesFor(avail) /\ Len(fd.additionalTags) > 0
    THEN LET validSelectedTags ==
                 SelectSeq(fd.additionalTags, LAMBDA r : r \in validTagIds(avail))
             isEditingGame == game # NoGame
             hasInvalidTags == Len(validSelectedTags) # Len(fd.additionalTags)
         IN  IF ~isEditingGame /\ hasInvalidTags
             THEN [fd EXCEPT !.additionalTags = validSelectedTags]
             ELSE fd
    ELSE fd

\* submittedTags without the filter
submittedTagsUnfiltered(fd) == fd.additionalTags

\* the additionalTags handleSubmit sends
submittedTags(fd) == SelectSeq(fd.additionalTags, NotNullish)

\* `(game as any).id || (game as any)._id`
updateIdOf(game) ==
    IF game.id # Undefined /\ game.id # "" THEN game.id ELSE game._id

NoPayload == [op |-> "none"]

\* the request handleSubmit sends to updateGame or createGame
payloadOf(fd, imageUrl, game) ==
    LET gameData == [fd EXCEPT !.imageUrl = imageUrl,
                               !.additionalTags = submittedTags(fd)]
    IN  IF game # NoGame
        THEN [op |-> "update", id |-> updateIdOf(game), data |-> gameData]
        ELSE [op |-> "create", id |-> Undefined, data |-> gameData]

IdleSubmit ==
    [pc |-> "idle", formData |-> EmptyForm, selectedFile |-> NoFile,
     game |-> NoGame, upload |-> "none", payload |-> NoPayload]

SaveFailedMessage == "Failed to save game. Please try again."
NotImageMessage == "Please select an image file"
TooBigMessage == "File size must be less than 5MB"

\* the files the admin picks: an image, and an image over 5MB; "doc" names a
\* file whose type is no image
Files == {"pic", "huge"}
IsImage(f) == f # "doc"
MaxFileSize == 5 * 1024 * 1024
FileSize(f) == IF f = "huge" THEN MaxFileSize + 1 ELSE 1024

\* URL.createObjectURL(file)
objectUrl(f) == <<"b", "l", "o", "b", ":", f>>

UploadUrl == <<"/", "u", "/", "n">>
UploadResponses ==
    {[success |-> TRUE, url |-> UploadUrl], [success |-> FALSE, url |-> UploadUrl],
     [success |-> TRUE, url |-> <<>>]}


\* the open/close effect on [isOpen, game], open branch: fetchTags is called
\* and the draft is taken from the game, or reset
OpenEffect(game) ==
    /\ tagFetches' = tagFetches + 1
    /\ selectedFile' = NoFile
    /\ formError' = ""
    /\ formData' = IF game # NoGame THEN formOfGame(game) ELSE EmptyForm
    /\ previewUrl' = IF game # NoGame THEN getImageUrl(game.imageUrl) ELSE <<>>

\* handleFormClose with the effects it triggers: the close branch of the
\* open/close effect and, when `game` changed, the clean-up effect
CloseForm ==
    /\ showForm' = FALSE
    /\ selectedGame' = NoGame
    /\ selectedFile' = NoFile
    /\ previewUrl' = <<>>
    /\ formError' = ""
    /\ formData' = IF selectedGame # NoGame
                   THEN cleanUpTags(formData, availableTags, NoGame)
                   ELSE formData

\* "Add Game": handleCreateGame
HandleCreateGame ==
    /\ GamesInteractive
    /\ tagFetches < MaxTagFetch
    /\ selectedGame' = NoGame
    /\ showForm' = TRUE
    /\ OpenEffect(NoGame)
    /\ UNCHANGED <<browserVars, authVars, otherPageVars, listVars, pageReqVars, toastError,
                   availableTags, formLoading, uploading, submit>>

\* "Edit" on the card at position i: handleEditGame
HandleEditGame(i) ==
    /\ GamesInteractive
    /\ tagFetches < MaxTagFetch
    /\ i \in DOMAIN filteredGames
    /\ selectedGame' = filteredGames[i]
    /\ showForm' = TRUE
    /\ OpenEffect(filteredGames[i])
    /\ UNCHANGED <<browserVars, authVars, otherPageVars, listVars, pageReqVars, toastError,
                   availableTags, formLoading, uploading, submit>>

\* HandleFormClose with Cancel disabled during a submit, as the submit button is
HandleFormCloseWhenIdle ==
    /\ FormInteractive
    /\ ~(formLoading \/ uploading)
    /\ CloseForm
    /\ UNCHANGED <<browserVars, authVars, otherPageVars, listVars, pageReqVars, toastError,
                   availableTags, formLoading, uploading, submit, tagFetches>>

\* "Cancel" and the X button of the form
HandleFormClose ==
    /\ FormInteractive
    /\ CloseForm
    /\ UNCHANGED <<browserVars, authVars, otherPageVars, listVars, pageReqVars, toastError,
                   availableTags, formLoading, uploading, submit, tagFetches>>

\* the form's fetchTags resumes with the response
TagsLoaded(body) ==
    /\ GamesMounted
    /\ tagFetches > 0
    /\ tagFetches' = tagFetches - 1
    /\ availableTags' = collectionOf(getAdditionalTags(body))
    /\ formData' = cleanUpTags(formData, availableTags', selectedGame)
    /\ UNCHANGED <<browserVars, authVars, otherPageVars, listVars, openVars, pageReqVars,
                   toastError, formLoading, uploading, formError, selectedFile,
                   previewUrl, submit>>

\* the form's fetchTags resumes in its catch
TagsFailed(status) ==
    /\ GamesMounted
    /\ tagFetches > 0
    /\ tagFetches' = tagFetches - 1
    /\ Intercept(status)
    /\ UNCHANGED <<location, authVars, otherPageVars, listVars, openVars, pageReqVars,
                   toastError, formData, availableTags, formLoading, uploading,
                   formError, selectedFile, previewUrl, submit>>

\* a title typed into the form
HandleTitleChange(text) ==
    /\ FormInteractive
    /\ formData' = [formData EXCEPT !.title = text]
    /\ UNCHANGED <<browserVars, authVars, otherPageVars, listVars, openVars, pageReqVars,
                   toastError, availableTags, formLoading, uploading, formError,
                   selectedFile, previewUrl, submit, tagFetches>>

\* the checkbox of the tag at position i: handleTagToggle(tag._id)
HandleTagToggle(i) ==
    /\ FormInteractive
    /\ formData.mainTag = "Game"
    /\ i \in DOMAIN availableTags
    /\ LET tagId == ToRef(availableTags[i]._id)
           isSelected == tagId \in Range(formData.additionalTags)
       IN  formData' =
               [formData EXCEPT !.additionalTags =
                   IF isSelected
                   THEN SelectSeq(formData.additionalTags, LAMBDA r : r # tagId)
                   ELSE Append(formData.additionalTags, tagId)]
    /\ UNCHANGED <<browserVars, authVars, otherPageVars, listVars, openVars, pageReqVars,
                   toastError, availableTags, formLoading, uploading, formError,
                   selectedFile, previewUrl, submit, tagFetches>>

\* handleFileSelect
HandleFileSelect(f) ==
    /\ FormInteractive
    /\ IF ~IsImage(f)
       THEN /\ formError' = NotImageMessage
            /\ toastError' = NotImageMessage
            /\ UNCHANGED <<selectedFile, previewUrl>>
       ELSE IF FileSize(f) > MaxFileSize
       THEN /\ formError' = TooBigMessage
            /\ toastError' = TooBigMessage
            /\ UNCHANGED <<selectedFile, previewUrl>>
       ELSE /\ selectedFile' = f
            /\ formError' = ""
            /\ previewUrl' = objectUrl(f)
            /\ UNCHANGED toastError
    /\ UNCHANGED <<browserVars, authVars, otherPageVars, listVars, openVars, pageReqVars,
                   formData, availableTags, formLoading, uploading, submit,
                   tagFetches>>


\* HandleSubmit without the await on uploadImage: the create or update request
\* is sent while the upload is in flight
HandleSubmitNoAwait ==
    /\ FormInteractive
    /\ ~(formLoading \/ uploading)
    /\ formData.title # <<>>
    /\ fetches < MaxFetch
    /\ formLoading' = TRUE
    /\ formError' = ""
    /\ uploading' = (selectedFile # NoFile)
    /\ submit' = [pc |-> "saving", formData |-> formData,
                  selectedFile |-> selectedFile, game |-> selectedGame,
                  upload |-> IF selectedFile # NoFile THEN "pending" ELSE "none",
                  payload |-> payloadOf(formData, formData.imageUrl, selectedGame)]
    /\ UNCHANGED <<browserVars, authVars, otherPageVars, listVars, openVars, pageReqVars,
                   toastError, formData, availableTags, selectedFile, previewUrl,
                   tagFetches>>

\* HandleSubmit with the submit button enabled during a submit
HandleSubmitWhileBusy ==
    /\ FormInteractive
    /\ formData.title # <<>>
    /\ fetches < MaxFetch
    /\ formLoading' = TRUE
    /\ formError' = ""
    /\ IF selectedFile # NoFile
       THEN /\ uploading' = TRUE
            /\ submit' = [pc |-> "uploading", formData |-> formData,
                          selectedFile |-> selectedFile, game |-> selectedGame,
                          upload |-> "pending", payload |-> NoPayload]
       ELSE /\ uploading' = uploading
            /\ submit' = [pc |-> "saving", formData |-> formData,
                          selectedFile |-> selectedFile, game |-> selectedGame,
                          upload |-> "none",
                          payload |-> payloadOf(formData, formData.imageUrl,
                                                selectedGame)]
    /\ UNCHANGED <<browserVars, authVars, otherPageVars, listVars, openVars, pageReqVars,
                   toastError, formData, availableTags, selectedFile, previewUrl,
                   tagFetches>>

\* handleSubmit up to its first await: the upload when a file is selected,
\* the create or update request otherwise
HandleSubmit ==
    /\ FormInteractive
    /\ ~(formLoading \/ uploading)
    /\ formData.title # <<>>
    /\ fetches < MaxFetch
    /\ formLoading' = TRUE
    /\ formError' = ""
    /\ IF selectedFile # NoFile
       THEN /\ uploading' = TRUE
            /\ submit' = [pc |-> "uploading", formData |-> formData,
                          selectedFile |-> selectedFile, game |-> selectedGame,
                          upload |-> "pending", payload |-> NoPayload]
       ELSE /\ uploading' = uploading
            /\ submit' = [pc |-> "saving", formData |-> formData,
                          selectedFile |-> selectedFile, game |-> selectedGame,
                          upload |-> "none",
                          payload |-> payloadOf(formData, formData.imageUrl,
                                                selectedGame)]
    /\ UNCHANGED <<browserVars, authVars, otherPageVars, listVars, openVars, pageReqVars,
                   toastError, formData, availableTags, selectedFile, previewUrl,
                   tagFetches>>

\* SubmitFailed without the finally
SubmitFailedNoFinally ==
    /\ formError' = SaveFailedMessage
    /\ toastError' = SaveFailedMessage
    /\ formLoading' = formLoading
    /\ submit' = IdleSubmit

\* the catch and finally of handleSubmit
SubmitFailed ==
    /\ formError' = SaveFailedMessage
    /\ toastError' = SaveFailedMessage
    /\ formLoading' = FALSE
    /\ submit' = IdleSubmit

\* UploadOk sending the draft's imageUrl in place of the returned URL
UploadOkKeepingDraftUrl(response) ==
    /\ GamesMounted
    /\ submit.pc = "uploading"
    /\ uploading' = FALSE
    /\ IF response.success /\ response.url # <<>>
       THEN /\ submit' = [submit EXCEPT
                             !.pc = "saving", !.upload = "resolved",
                             !.payload = payloadOf(submit.formData,
                                                   submit.formData.imageUrl,
                                                   submit.game)]
            /\ UNCHANGED <<formError, toastError, formLoading>>
       ELSE SubmitFailed
    /\ UNCHANGED <<browserVars, authVars, otherPageVars, listVars, openVars, pageReqVars,
                   formData, availableTags, selectedFile, previewUrl, tagFetches>>

\* UploadOk testing the success flag alone
UploadOkOnSuccessFlag(response) ==
    /\ GamesMounted
    /\ submit.pc = "uploading"
    /\ uploading' = FALSE
    /\ IF response.success
       THEN /\ submit' = [submit EXCEPT
                             !.pc = "saving", !.upload = "resolved",
                             !.payload = payloadOf(submit.formData, response.url,
                                                   submit.game)]
            /\ UNCHANGED <<formError, toastError, formLoading>>
       ELSE SubmitFailed
    /\ UNCHANGED <<browserVars, authVars, otherPageVars, listVars, openVars, pageReqVars,
                   formData, availableTags, selectedFile, previewUrl, tagFetches>>

\* uploadImage resumes with the response: handleSubmit goes on to the create
\* or update request, or to its catch when the response is no success
UploadOk(response) ==
    /\ GamesMounted
    /\ submit.pc = "uploading"
    /\ uploading' = FALSE
    /\ IF response.success /\ response.url # <<>>
       THEN /\ submit' = [submit EXCEPT
                             !.pc = "saving", !.upload = "resolved",
                             !.payload = payloadOf(submit.formData, response.url,
                                                   submit.game)]
            /\ UNCHANGED <<formError, toastError, formLoading>>
       ELSE SubmitFailed
    /\ UNCHANGED <<browserVars, authVars, otherPageVars, listVars, openVars, pageReqVars,
                   formData, availableTags, selectedFile, previewUrl, tagFetches>>

\* the upload request failed
UploadFail(status) ==
    /\ GamesMounted
    /\ submit.pc = "uploading"
    /\ Intercept(status)
    /\ uploading' = FALSE
    /\ SubmitFailed
    /\ UNCHANGED <<location, authVars, otherPageVars, listVars, openVars, pageReqVars, formData,
                   availableTags, selectedFile, previewUrl, tagFetches>>

\* SaveOk without the call of onSave()
SaveOkNoReload ==
    /\ GamesMounted
    /\ submit.pc = "saving"
    /\ CloseForm
    /\ formLoading' = FALSE
    /\ submit' = IdleSubmit
    /\ UNCHANGED <<browserVars, authVars, otherPageVars, listVars, pageReqVars, toastError,
                   availableTags, uploading, tagFetches>>

\* the create or update request resolved: onSave() (handleFormSave calls
\* fetchData), onClose() (handleFormClose), then the finally
SaveOk ==
    /\ GamesMounted
    /\ submit.pc = "saving"
    /\ IssueFetchData
    /\ CloseForm
    /\ formLoading' = FALSE
    /\ submit' = IdleSubmit
    /\ UNCHANGED <<browserVars, authVars, otherPageVars, listVars, deletes, toastError,
                   availableTags, uploading, tagFetches>>

\* the create or update request failed
SaveFail(status) ==
    /\ GamesMounted
    /\ submit.pc = "saving"
    /\ Intercept(status)
    /\ SubmitFailed
    /\ UNCHANGED <<location, authVars, otherPageVars, listVars, openVars, pageReqVars, formData,
                   availableTags, uploading, selectedFile, previewUrl, tagFetches>>

(***************************************************************************)
(* TagsPage (app/dashboard/tags/page).                                     *)
(***************************************************************************)
TagsPageInit ==
    [tags |-> <<>>, filteredTags |-> <<>>, loading |-> TRUE, searchTerm |-> <<>>,
     newTagName |-> <<>>, newTagBelongsTo |-> "Game", showCreateForm |-> FALSE,
     creating |-> FALSE, deletingId |-> NoId, error |-> "", calls |-> {}]

\* a request of the tags page in flight: the client method awaited, the
\* handler awaiting it, and the arguments
TagsCall(op, by, id, name, belongsTo) ==
    [op |-> op, by |-> by, id |-> id, name |-> name, belongsTo |-> belongsTo,
     reply |-> NoReply]

\* fetchTags called by the mount effect or awaited by the handler `by`
FetchTagsCall(by, id) == TagsCall("getAdditionalTags", by, id, <<>>, "")

TagsFetchFailed == "Failed to fetch tags"
TagCreateFailed == "Failed to create tag. Please try again."
TagDeleteFailed == "Failed to delete tag. Please try again."

\* String.prototype.trim over the alphabet's blank
RECURSIVE trimStart(_)
trimStart(s) == IF s # <<>> /\ Head(s) = " " THEN trimStart(Tail(s)) ELSE s

RECURSIVE trimEnd(_)
trimEnd(s) ==
    IF s # <<>> /\ s[Len(s)] = " " THEN trimEnd(SubSeq(s, 1, Len(s) - 1)) ELSE s

trim(s) == trimEnd(trimStart(s))

NewTagNames == {<<"n">>, <<" ">>}
BelongsTo == {"Game", "Software"}

\* filterTags, as the effect on [tags, searchTerm] runs it
filterTags(ts, term) ==
    IF term # <<>>
    THEN SelectSeq(ts, LAMBDA t : includes(toLowerCase(t.name), toLowerCase(term)))
    ELSE ts

TagsMounted == location = TagsRoute

\* the page renders a skeleton while loading
TagsInteractive == TagsMounted /\ ~navPending /\ ~tagsPage.loading

\* `tag.belongsTo || "Unknown"`: the group the list renders a tag under
groupOf(tag) ==
    IF tag.belongsTo # Undefined /\ tag.belongsTo # "" THEN tag.belongsTo
    ELSE "Unknown"

\* the groups the list renders, and the tags of one, whose number is its count
tagGroups(ts) == {groupOf(ts[k]) : k \in DOMAIN ts}
groupedTags(ts, belongsTo) == SelectSeq(ts, LAMBDA tag : groupOf(tag) = belongsTo)

\* the finally of the handler that awaited fetchTags
afterFetchTags(p, call) ==
    IF call.by = "handleCreateTag" THEN [p EXCEPT !.creating = FALSE]
    ELSE IF call.by = "handleDeleteTag" THEN [p EXCEPT !.deletingId = NoId]
    ELSE p

\* fetchTags resumes with the response
FetchTagsOk(call, body) ==
    /\ TagsMounted
    /\ call \in tagsPage.calls
    /\ call.op = "getAdditionalTags"
    /\ LET tagsData == collectionOf(getAdditionalTags(body))
       IN  tagsPage' = afterFetchTags(
               [tagsPage EXCEPT !.tags = tagsData,
                                !.filteredTags = filterTags(tagsData, tagsPage.searchTerm),
                                !.loading = FALSE,
                                !.calls = @ \ {call}], call)
    /\ UNCHANGED <<browserVars, authVars, gamesPageVars, usersPage, loginCall, backend>>

\* fetchTags resumes in its catch
FetchTagsFail(call, status) ==
    /\ TagsMounted
    /\ call \in tagsPage.calls
    /\ call.op = "getAdditionalTags"
    /\ Intercept(status)
    /\ tagsPage' = afterFetchTags(
           [tagsPage EXCEPT !.error = TagsFetchFailed,
                            !.loading = FALSE,
                            !.calls = @ \ {call}], call)
    /\ UNCHANGED <<location, authVars, gamesPageVars, usersPage, loginCall, backend>>

\* the search box of the tags page
SetTagSearchTerm(term) ==
    /\ TagsInteractive
    /\ tagsPage' = [tagsPage EXCEPT !.searchTerm = term,
                                    !.filteredTags = filterTags(tagsPage.tags, term)]
    /\ UNCHANGED <<browserVars, authVars, gamesPageVars, usersPage, loginCall, backend>>

\* "Add Tag"
ShowCreateForm ==
    /\ TagsInteractive
    /\ ~tagsPage.showCreateForm
    /\ tagsPage' = [tagsPage EXCEPT !.showCreateForm = TRUE]
    /\ UNCHANGED <<browserVars, authVars, gamesPageVars, usersPage, loginCall, backend>>

\* "Cancel" of the create form
CancelCreateForm ==
    /\ TagsInteractive
    /\ tagsPage.showCreateForm
    /\ tagsPage' = [tagsPage EXCEPT !.showCreateForm = FALSE,
                                    !.newTagName = <<>>,
                                    !.newTagBelongsTo = "Game"]
    /\ UNCHANGED <<browserVars, authVars, gamesPageVars, usersPage, loginCall, backend>>

\* the inputs of the create form
SetNewTag(name, belongsTo) ==
    /\ TagsInteractive
    /\ tagsPage.showCreateForm
    /\ tagsPage' = [tagsPage EXCEPT !.newTagName = name,
                                    !.newTagBelongsTo = belongsTo]
    /\ UNCHANGED <<browserVars, authVars, gamesPageVars, usersPage, loginCall, backend>>

\* handleCreateTag up to its first await
HandleCreateTag ==
    /\ TagsInteractive
    /\ tagsPage.showCreateForm
    /\ ~tagsPage.creating
    /\ IF trim(tagsPage.newTagName) = <<>>
       THEN tagsPage' = tagsPage
       ELSE /\ Cardinality(tagsPage.calls) < MaxFetch
            /\ tagsPage' =
                   [tagsPage EXCEPT
                       !.creating = TRUE,
                       !.error = "",
                       !.calls = @ \cup
                           {TagsCall("createAdditionalTag", "handleCreateTag", NoId,
                                     trim(tagsPage.newTagName),
                                     tagsPage.newTagBelongsTo)}]
    /\ UNCHANGED <<browserVars, authVars, gamesPageVars, usersPage, loginCall, backend>>

\* handleCreateTag resumes after createAdditionalTag resolved, and calls
\* fetchTags
CreateTagOk(call) ==
    /\ TagsMounted
    /\ call \in tagsPage.calls
    /\ call.op = "createAdditionalTag"
    /\ tagsPage' = [tagsPage EXCEPT
                       !.newTagName = <<>>,
                       !.newTagBelongsTo = "Game",
                       !.showCreateForm = FALSE,
                       !.calls = (@ \ {call}) \cup {FetchTagsCall(call.by, NoId)}]
    /\ UNCHANGED <<browserVars, authVars, gamesPageVars, usersPage, loginCall, backend>>

\* handleCreateTag resumes in its catch
CreateTagFail(call, status) ==
    /\ TagsMounted
    /\ call \in tagsPage.calls
    /\ call.op = "createAdditionalTag"
    /\ Intercept(status)
    /\ tagsPage' = [tagsPage EXCEPT !.error = TagCreateFailed,
                                    !.creating = FALSE,
                                    !.calls = @ \ {call}]
    /\ UNCHANGED <<location, authVars, gamesPageVars, usersPage, loginCall, backend>>

\* handleDeleteTag(tag._id) from the row at position i, up to its await; a
\* declined window.confirm ends the handler
HandleDeleteTag(i, confirmed) ==
    /\ TagsInteractive
    /\ i \in DOMAIN tagsPage.filteredTags
    /\ LET id == tagsPage.filteredTags[i]._id
           call == TagsCall("deleteAdditionalTag", "handleDeleteTag", id, <<>>, "")
       IN  /\ tagsPage.deletingId # id
           /\ IF confirmed
              THEN /\ call \notin Requests(tagsPage.calls)
                   /\ FetchTagsCall("handleDeleteTag", id) \notin Requests(tagsPage.calls)
                   /\ Cardinality(tagsPage.calls) < MaxFetch
                   /\ tagsPage' = [tagsPage EXCEPT !.deletingId = id,
                                                   !.error = "",
                                                   !.calls = @ \cup {call}]
              ELSE tagsPage' = tagsPage
    /\ UNCHANGED <<browserVars, authVars, gamesPageVars, usersPage, loginCall, backend>>

\* handleDeleteTag resumes after deleteAdditionalTag resolved, and calls
\* fetchTags
DeleteTagOk(call) ==
    /\ TagsMounted
    /\ call \in tagsPage.calls
    /\ call.op = "deleteAdditionalTag"
    /\ tagsPage' = [tagsPage EXCEPT
                       !.calls = (@ \ {call}) \cup {FetchTagsCall(call.by, call.id)}]
    /\ UNCHANGED <<browserVars, authVars, gamesPageVars, usersPage, loginCall, backend>>

\* handleDeleteTag resumes in its catch
DeleteTagFail(call, status) ==
    /\ TagsMounted
    /\ call \in tagsPage.calls
    /\ call.op = "deleteAdditionalTag"
    /\ Intercept(status)
    /\ tagsPage' = [tagsPage EXCEPT !.error = TagDeleteFailed,
                                    !.deletingId = NoId,
                                    !.calls = @ \ {call}]
    /\ UNCHANGED <<location, authVars, gamesPageVars, usersPage, loginCall, backend>>

(***************************************************************************)
(* UsersPage (app/dashboard/users/page).                                   *)
(***************************************************************************)
\* no user id: the null of updatingUserId
NoUserId == <<>>

UsersPageInit ==
    [users |-> <<>>, filteredUsers |-> <<>>, loading |-> TRUE, searchTerm |-> <<>>,
     filterSubscription |-> "all", updatingUserId |-> NoUserId, error |-> "",
     calls |-> {}]

UsersCall(op, by, userId, isSubscribed) ==
    [op |-> op, by |-> by, userId |-> userId, isSubscribed |-> isSubscribed,
     reply |-> NoReply]

FetchUsersCall(by, userId) == UsersCall("getUsers", by, userId, FALSE)

UsersFetchFailed == "Failed to fetch users"
SubscriptionFailed == "Failed to update subscription. Please try again."

SubscriptionFilters == {"all", "subscribed", "unsubscribed"}

UserMatchesSearch(user, term) ==
    \/ user.username # <<>> /\ includes(toLowerCase(user.username), toLowerCase(term))
    \/ user.email # <<>> /\ includes(toLowerCase(user.email), toLowerCase(term))
    \/ includes(toLowerCase(user._id), toLowerCase(term))

\* filterUsers, as the effect on [users, searchTerm, filterSubscription] runs it
filterUsers(us, term, filterSubscription) ==
    LET bySearch ==
            IF term # <<>>
            THEN SelectSeq(us, LAMBDA u : UserMatchesSearch(u, term))
            ELSE us
    IN  IF filterSubscription # "all"
        THEN SelectSeq(bySearch,
                       LAMBDA u : IF filterSubscription = "subscribed"
                                  THEN u.isSubscribed ELSE ~u.isSubscribed)
        ELSE bySearch

UsersMounted == location = UsersRoute
UsersInteractive == UsersMounted /\ ~navPending /\ ~usersPage.loading

\* the finally of handleSubscriptionToggle, which awaited fetchUsers
afterFetchUsers(p, call) ==
    IF call.by = "handleSubscriptionToggle"
    THEN [p EXCEPT !.updatingUserId = NoUserId]
    ELSE p

\* FetchUsersOk dropping a response while another fetchUsers is in flight
FetchUsersOkUnlessSuperseded(call, body) ==
    /\ UsersMounted
    /\ call \in usersPage.calls
    /\ call.op = "getUsers"
    /\ LET usersData ==
               IF \E other \in usersPage.calls \ {call} : other.op = "getUsers"
               THEN usersPage.users
               ELSE collectionOf(getUsers(body))
       IN  usersPage' = afterFetchUsers(
               [usersPage EXCEPT
                   !.users = usersData,
                   !.filteredUsers = filterUsers(usersData, usersPage.searchTerm,
                                                 usersPage.filterSubscription),
                   !.loading = FALSE,
                   !.calls = @ \ {call}], call)
    /\ UNCHANGED <<browserVars, authVars, gamesPageVars, tagsPage, loginCall, backend>>

\* fetchUsers resumes with the response
FetchUsersOk(call, body) ==
    /\ UsersMounted
    /\ call \in usersPage.calls
    /\ call.op = "getUsers"
    /\ LET usersData == collectionOf(getUsers(body))
       IN  usersPage' = afterFetchUsers(
               [usersPage EXCEPT
                   !.users = usersData,
                   !.filteredUsers = filterUsers(usersData, usersPage.searchTerm,
                                                 usersPage.filterSubscription),
                   !.loading = FALSE,
                   !.calls = @ \ {call}], call)
    /\ UNCHANGED <<browserVars, authVars, gamesPageVars, tagsPage, loginCall, backend>>

\* fetchUsers resumes in its catch
FetchUsersFail(call, status) ==
    /\ UsersMounted
    /\ call \in usersPage.calls
    /\ call.op = "getUsers"
    /\ Intercept(status)
    /\ usersPage' = afterFetchUsers(
           [usersPage EXCEPT !.error = UsersFetchFailed,
                             !.loading = FALSE,
                             !.calls = @ \ {call}], call)
    /\ UNCHANGED <<location, authVars, gamesPageVars, tagsPage, loginCall, backend>>

\* the search box of the users page
SetUserSearchTerm(term) ==
    /\ UsersInteractive
    /\ usersPage' = [usersPage EXCEPT
                        !.searchTerm = term,
                        !.filteredUsers = filterUsers(usersPage.users, term,
                                                      usersPage.filterSubscription)]
    /\ UNCHANGED <<browserVars, authVars, gamesPageVars, tagsPage, loginCall, backend>>

\* the subscription selector
SetFilterSubscription(f) ==
    /\ UsersInteractive
    /\ usersPage' = [usersPage EXCEPT
                        !.filterSubscription = f,
                        !.filteredUsers = filterUsers(usersPage.users,
                                                      usersPage.searchTerm, f)]
    /\ UNCHANGED <<browserVars, authVars, gamesPageVars, tagsPage, loginCall, backend>>

\* handleSubscriptionToggle(user._id, user.isSubscribed) from the row at
\* position i, up to its await
HandleSubscriptionToggle(i) ==
    /\ UsersInteractive
    /\ i \in DOMAIN usersPage.filteredUsers
    /\ LET user == usersPage.filteredUsers[i]
           call == UsersCall("setSubscription", "handleSubscriptionToggle",
                             user._id, ~user.isSubscribed)
       IN  /\ usersPage.updatingUserId # user._id
           /\ call \notin Requests(usersPage.calls)
           /\ FetchUsersCall("handleSubscriptionToggle", user._id)
                  \notin Requests(usersPage.calls)
           /\ Cardinality(usersPage.calls) < MaxFetch
           /\ usersPage' = [usersPage EXCEPT !.updatingUserId = user._id,
                                             !.error = "",
                                             !.calls = @ \cup {call}]
    /\ UNCHANGED <<browserVars, authVars, gamesPageVars, tagsPage, loginCall, backend>>

\* handleSubscriptionToggle resumes after setSubscription resolved, and calls
\* fetchUsers
SetSubscriptionOk(call) ==
    /\ UsersMounted
    /\ call \in usersPage.calls
    /\ call.op = "setSubscription"
    /\ usersPage' = [usersPage EXCEPT
                        !.calls = (@ \ {call}) \cup {FetchUsersCall(call.by, call.userId)}]
    /\ UNCHANGED <<browserVars, authVars, gamesPageVars, tagsPage, loginCall, backend>>

\* handleSubscriptionToggle resumes in its catch
SetSubscriptionFail(call, status) ==
    /\ UsersMounted
    /\ call \in usersPage.calls
    /\ call.op = "setSubscription"
    /\ Intercept(status)
    /\ usersPage' = [usersPage EXCEPT !.error = SubscriptionFailed,
                                      !.updatingUserId = NoUserId,
                                      !.calls = @ \ {call}]
    /\ UNCHANGED <<location, authVars, gamesPageVars, tagsPage, loginCall, backend>>

(***************************************************************************)
(* The backend, the collaborator the API client talks to. It stores the    *)
(* users and the tags. It answers a request in one step, applying a create, *)
(* delete or update as it does; the answer then travels to the client while *)
(* the backend answers other requests. What it does with a request is taken *)
(* from the request the client sends: a list is answered with the stored    *)
(* collection, a record operation acts on the record the body names.        *)
(***************************************************************************)
\* the ids the backend gives the tags it creates
NewTagIds == <<"n1", "n2", "n3">>

\* `applied` is the log of the subscription updates applied, each with the
\* value stored before it
BackendInit ==
    [users |-> <<UserA, UserB>>, tags |-> <<Tag1, Tag2>>, created |-> 0,
     applied |-> <<>>]

\* the page's requests of a client method that are not answered yet
Unanswered(calls, op) == {c \in calls : c.op = op /\ c.reply.shape = "none"}

\* the page record with the answer of `call` on its way
Answered(p, call, reply) ==
    [p EXCEPT !.calls = (@ \ {call}) \cup {[call EXCEPT !.reply = reply]}]

\* whether the stored user `id` is subscribed
subscribedAt(us, id) == \E i \in DOMAIN us : us[i]._id = id /\ us[i].isSubscribed

\* GET /admin/user
BackendGetUsers(call) ==
    /\ call \in Unanswered(usersPage.calls, "getUsers")
    /\ usersPage' = Answered(usersPage, call, Bare(backend.users))
    /\ UNCHANGED <<browserVars, authVars, gamesPageVars, tagsPage, loginCall, backend>>

\* PUT /admin/user/set_subscription
BackendSetSubscription(call) ==
    /\ call \in Unanswered(usersPage.calls, "setSubscription")
    /\ Len(backend.applied) < MaxToggles
    /\ LET body == setSubscription(call.userId, call.isSubscribed)
           us == backend.users
       IN  backend' =
               [backend EXCEPT
                   !.users = [i \in DOMAIN us |->
                                 IF us[i]._id = body.id
                                 THEN [us[i] EXCEPT !.isSubscribed = body.isSubscribed]
                                 ELSE us[i]],
                   !.applied = Append(@, [id |-> body.id,
                                          isSubscribed |-> body.isSubscribed,
                                          before |-> subscribedAt(us, body.id)])]
    /\ usersPage' = Answered(usersPage, call, Done)
    /\ UNCHANGED <<browserVars, authVars, gamesPageVars, tagsPage, loginCall>>

\* GET /admin/games/additional_tags
BackendGetTags(call) ==
    /\ call \in Unanswered(tagsPage.calls, "getAdditionalTags")
    /\ tagsPage' = Answered(tagsPage, call, Bare(backend.tags))
    /\ UNCHANGED <<browserVars, authVars, gamesPageVars, usersPage, loginCall, backend>>

\* POST /admin/games/additional_tags: the tag gets the name and the category
\* of the body; for a body without a category the backend's choice is not
\* known here, so it is any of no category, "Game" and "Software"
BackendCreateTag(call, ifAbsent) ==
    /\ call \in Unanswered(tagsPage.calls, "createAdditionalTag")
    /\ backend.created < MaxCreated
    /\ LET body == createAdditionalTag(call.name)
           belongsTo == IF "belongsTo" \in DOMAIN body THEN body.belongsTo
                        ELSE ifAbsent
       IN  backend' =
               [backend EXCEPT
                   !.tags = Append(@, Tag(NewTagIds[backend.created + 1], body.name,
                                          belongsTo)),
                   !.created = @ + 1]
    /\ tagsPage' = Answered(tagsPage, call, Done)
    /\ UNCHANGED <<browserVars, authVars, gamesPageVars, usersPage, loginCall>>

\* DELETE /admin/games/additional_tags
BackendDeleteTag(call) ==
    /\ call \in Unanswered(tagsPage.calls, "deleteAdditionalTag")
    /\ LET body == deleteAdditionalTag(call.id)
       IN  backend' = [backend EXCEPT
                          !.tags = SelectSeq(@, LAMBDA t : t._id # body.id)]
    /\ tagsPage' = Answered(tagsPage, call, Done)
    /\ UNCHANGED <<browserVars, authVars, gamesPageVars, usersPage, loginCall>>

(***************************************************************************)
(* The pages as a route mounts and unmounts them.                          *)
(***************************************************************************)
\* no request of the page shown is in flight
Quiescent ==
    /\ fetches = 0 /\ deletes = {} /\ tagFetches = 0 /\ submit.pc = "idle"
    /\ tagsPage.calls = {} /\ usersPage.calls = {}

\* every page component unmounted
Unmounted ==
    /\ games' = <<>> /\ filteredGames' = <<>> /\ tags' = <<>>
    /\ gamesLoading' = TRUE
    /\ searchTerm' = <<>> /\ selectedMainTag' = "all"
    /\ showForm' = FALSE /\ selectedGame' = NoGame
    /\ fetches' = 0 /\ deletes' = {} /\ toastError' = ""
    /\ formData' = EmptyForm /\ availableTags' = <<>>
    /\ formLoading' = FALSE /\ uploading' = FALSE /\ formError' = ""
    /\ selectedFile' = NoFile /\ previewUrl' = <<>>
    /\ submit' = IdleSubmit /\ tagFetches' = 0
    /\ tagsPage' = TagsPageInit /\ usersPage' = UsersPageInit

\* the page of `route` mounted, its mount effect run, every other page
\* unmounted
Mounted(route) ==
    /\ games' = <<>> /\ filteredGames' = <<>> /\ tags' = <<>>
    /\ gamesLoading' = TRUE
    /\ searchTerm' = <<>> /\ selectedMainTag' = "all"
    /\ showForm' = FALSE /\ selectedGame' = NoGame
    /\ fetches' = (IF route = GamesRoute THEN 1 ELSE 0)
    /\ deletes' = {} /\ toastError' = ""
    /\ formData' = EmptyForm /\ availableTags' = <<>>
    /\ formLoading' = FALSE /\ uploading' = FALSE /\ formError' = ""
    /\ selectedFile' = NoFile /\ previewUrl' = <<>>
    /\ submit' = IdleSubmit /\ tagFetches' = 0
    /\ tagsPage' = IF route = TagsRoute
                   THEN [TagsPageInit EXCEPT !.calls = {FetchTagsCall("mount", NoId)}]
                   ELSE TagsPageInit
    /\ usersPage' = IF route = UsersRoute
                    THEN [UsersPageInit EXCEPT
                             !.calls = {FetchUsersCall("mount", NoUserId)}]
                    ELSE UsersPageInit

(***************************************************************************)
(* AuthProvider (context/AuthContext) and ApiClient.login.                 *)
(***************************************************************************)
LoginEndpoints ==
    <<"/admin/auth/login", "/admin/login", "/auth/login", "/adminAuth/login",
      "/userAuth/login">>

\* The AuthProvider.login call: where it is, the endpoint ApiClient.login is
\* trying and the endpoints it has posted to, how ApiClient.login ended
\* ("resolved" with a response, "rejected" with its Error), and what
\* AuthProvider.login returned ("true" or "false").
IdleLogin ==
    [pc |-> "idle", endpoint |-> 0, tried |-> <<>>, outcome |-> "none",
     result |-> "none"]

\* the bodies of a 2xx response to a login request: success flag, token
LoginResponses ==
    {[success |-> TRUE, token |-> Undefined],
     [success |-> FALSE, token |-> "tok2"],
     [success |-> FALSE, token |-> Undefined]}

\* the startup effect of AuthProvider
StartupCheck ==
    /\ authLoading
    /\ isAuthenticated' = (isAuthenticated \/ cookie # NoToken)
    /\ authLoading' = FALSE
    /\ UNCHANGED <<browserVars, gamesPageVars, otherPageVars>>

\* AuthProvider.login called from the login route, up to the first request
\* of ApiClient.login
LoginStart ==
    /\ location = LoginRoute
    /\ ~navPending
    /\ ~authLoading
    /\ loginCall.pc = "idle"
    /\ loginCall' = [IdleLogin EXCEPT !.pc = "probing", !.endpoint = 1,
                                      !.tried = <<LoginEndpoints[1]>>]
    /\ UNCHANGED <<browserVars, authVars, gamesPageVars, tagsPage, usersPage, backend>>

\* LoginEndpointOk taking every 2xx response for a successful login
LoginEndpointOkAny(response) ==
    /\ loginCall.pc = "probing"
    /\ cookie' = IF response.token # Undefined THEN response.token
                 ELSE "authenticated"
    /\ isAuthenticated' = TRUE
    /\ loginCall' = [loginCall EXCEPT !.pc = "idle", !.outcome = "resolved",
                                      !.result = "true"]
    /\ UNCHANGED <<location, navPending, authLoading, gamesPageVars, tagsPage,
                   usersPage, backend>>

\* the request to the endpoint being tried resolved: ApiClient.login returns
\* response.data and AuthProvider.login resumes
LoginEndpointOk(response) ==
    /\ loginCall.pc = "probing"
    /\ IF response.success \/ response.token # Undefined
       THEN /\ cookie' = IF response.token # Undefined THEN response.token
                         ELSE "authenticated"
            /\ isAuthenticated' = TRUE
            /\ loginCall' = [loginCall EXCEPT !.pc = "idle", !.outcome = "resolved",
                                              !.result = "true"]
       ELSE /\ UNCHANGED <<cookie, isAuthenticated>>
            /\ loginCall' = [loginCall EXCEPT !.pc = "idle", !.outcome = "resolved",
                                              !.result = "false"]
    /\ UNCHANGED <<location, navPending, authLoading, gamesPageVars, tagsPage,
                   usersPage, backend>>

\* LoginEndpointFail giving up at the first failure
LoginEndpointFailGivingUp(status) ==
    /\ loginCall.pc = "probing"
    /\ Intercept(status)
    /\ loginCall' = [loginCall EXCEPT !.pc = "idle", !.outcome = "rejected",
                                      !.result = "false"]
    /\ UNCHANGED <<location, authVars, gamesPageVars, tagsPage, usersPage, backend>>

\* the request to the endpoint being tried failed: the loop goes on to the
\* next endpoint, or throws after the last one and AuthProvider.login
\* returns false
LoginEndpointFail(status) ==
    /\ loginCall.pc = "probing"
    /\ Intercept(status)
    /\ loginCall' = IF loginCall.endpoint < Len(LoginEndpoints)
                    THEN [loginCall EXCEPT
                             !.endpoint = @ + 1,
                             !.tried = Append(@, LoginEndpoints[loginCall.endpoint + 1])]
                    ELSE [loginCall EXCEPT !.pc = "idle", !.outcome = "rejected",
                                           !.result = "false"]
    /\ UNCHANGED <<location, authVars, gamesPageVars, tagsPage, usersPage, backend>>

\* a link of the Sidebar, or from the login route the address of a dashboard
\* page: DashboardLayout renders the page for an authenticated session. The
\* admin leaves a page once its requests are answered; a login call that has
\* returned is over with the login page.
Navigate(route) ==
    /\ ~navPending
    /\ isAuthenticated /\ ~authLoading
    /\ loginCall.pc = "idle"
    /\ Quiescent
    /\ route \in DashboardRoutes \ {location}
    /\ location' = route
    /\ loginCall' = IdleLogin
    /\ Mounted(route)
    /\ UNCHANGED <<cookie, navPending, authVars, backend>>

\* Logout removing the cookie and leaving the flag to a later render
LogoutKeepingFlag ==
    /\ location \in DashboardRoutes
    /\ ~navPending
    /\ isAuthenticated /\ ~authLoading
    /\ Quiescent
    /\ cookie' = NoToken
    /\ location' = LoginRoute
    /\ Unmounted
    /\ UNCHANGED <<isAuthenticated, navPending, authLoading, loginCall, backend>>

\* Logout leaving the cookie in place
LogoutKeepingCookie ==
    /\ location \in DashboardRoutes
    /\ ~navPending
    /\ isAuthenticated /\ ~authLoading
    /\ Quiescent
    /\ isAuthenticated' = FALSE
    /\ location' = LoginRoute
    /\ Unmounted
    /\ UNCHANGED <<cookie, navPending, authLoading, loginCall, backend>>

\* AuthProvider.logout via the Sidebar's handleLogout; DashboardLayout then
\* renders nothing and its effect pushes the login route
Logout ==
    /\ location \in DashboardRoutes
    /\ ~navPending
    /\ isAuthenticated /\ ~authLoading
    /\ Quiescent
    /\ cookie' = NoToken
    /\ isAuthenticated' = FALSE
    /\ location' = LoginRoute
    /\ Unmounted
    /\ UNCHANGED <<navPending, authLoading, loginCall, backend>>

(***************************************************************************)
(* The navigation a 401 started commits: the document is replaced by the   *)
(* login route's, every component is gone, every request is aborted, and   *)
(* AuthProvider is constructed anew.                                       *)
(***************************************************************************)
PageLoad ==
    /\ navPending
    /\ navPending' = FALSE
    /\ location' = LoginRoute
    /\ isAuthenticated' = FALSE
    /\ authLoading' = TRUE
    /\ loginCall' = IdleLogin
    /\ Unmounted
    /\ UNCHANGED <<cookie, backend>>

(***************************************************************************)
(* The games page with its form, opened by an authenticated admin: the     *)
(* state after the page mounted and its mount effect called fetchData.     *)
(***************************************************************************)
Init ==
    /\ cookie = "tok" /\ location = GamesRoute /\ navPending = FALSE
    /\ isAuthenticated = TRUE /\ authLoading = FALSE
    /\ games = <<>> /\ filteredGames = <<>> /\ tags = <<>>
    /\ gamesLoading = TRUE
    /\ searchTerm = <<>> /\ selectedMainTag = "all"
    /\ showForm = FALSE /\ selectedGame = NoGame
    /\ fetches = 1 /\ deletes = {} /\ toastError = ""
    /\ formData = EmptyForm /\ availableTags = <<>>
    /\ formLoading = FALSE /\ uploading = FALSE /\ formError = ""
    /\ selectedFile = NoFile /\ previewUrl = <<>>
    /\ submit = IdleSubmit /\ tagFetches = 0
    /\ tagsPage = TagsPageInit /\ usersPage = UsersPageInit
    /\ loginCall = IdleLogin
    /\ backend = BackendInit

Titles == {<<"n">>}

Next ==
    \/ \E g \in FormGameResponses : FetchDataOk(g, Bare(<<Tag1>>))
    \/ \E st \in FailStatuses : FetchDataFail(st)
    \/ HandleCreateGame
    \/ \E i \in 1..MaxLen : HandleEditGame(i)
    \/ HandleFormClose
    \/ \E b \in FormTagResponses : TagsLoaded(b)
    \/ \E st \in FailStatuses : TagsFailed(st)
    \/ \E tx \in Titles : HandleTitleChange(tx)
    \/ \E i \in 1..MaxLen : HandleTagToggle(i)
    \/ \E f \in Files : HandleFileSelect(f)
    \/ HandleSubmit
    \/ \E r \in UploadResponses : UploadOk(r)
    \/ \E st \in FailStatuses : UploadFail(st)
    \/ SaveOk
    \/ \E st \in FailStatuses : SaveFail(st)
    \/ PageLoad

Spec == Init /\ [][Next]_vars

(***************************************************************************)
(* The tags page and the users page, as every specification of the         *)
(* dashboard runs them.                                                    *)
(***************************************************************************)
NextTagsPage ==
    \/ \E call \in tagsPage.calls, b \in TagResponses : FetchTagsOk(call, b)
    \/ \E call \in tagsPage.calls, st \in FailStatuses : FetchTagsFail(call, st)
    \/ \E term \in SearchTerms : SetTagSearchTerm(term)
    \/ ShowCreateForm
    \/ CancelCreateForm
    \/ \E n \in NewTagNames, bt \in BelongsTo : SetNewTag(n, bt)
    \/ HandleCreateTag
    \/ \E call \in tagsPage.calls : CreateTagOk(call)
    \/ \E call \in tagsPage.calls, st \in FailStatuses : CreateTagFail(call, st)
    \/ \E i \in 1..MaxLen, confirmed \in BOOLEAN : HandleDeleteTag(i, confirmed)
    \/ \E call \in tagsPage.calls : DeleteTagOk(call)
    \/ \E call \in tagsPage.calls, st \in FailStatuses : DeleteTagFail(call, st)

NextUsersPage ==
    \/ \E call \in usersPage.calls, b \in UserResponses : FetchUsersOk(call, b)
    \/ \E call \in usersPage.calls, st \in FailStatuses : FetchUsersFail(call, st)
    \/ \E term \in SearchTerms : SetUserSearchTerm(term)
    \/ \E f \in SubscriptionFilters : SetFilterSubscription(f)
    \/ \E i \in 1..MaxLen : HandleSubscriptionToggle(i)
    \/ \E call \in usersPage.calls : SetSubscriptionOk(call)
    \/ \E call \in usersPage.calls, st \in FailStatuses : SetSubscriptionFail(call, st)

MainTagFilters == {"all", "Game", "Software"}

(***************************************************************************)
(* The dashboard: the three list pages with their filters and record       *)
(* operations, and the session with the API client's 401 handling,         *)
(* AuthProvider's startup check, login and logout.                         *)
(***************************************************************************)
NextDashboard ==
    \/ \E g \in GameResponses, t \in PageTagResponses : FetchDataOk(g, t)
    \/ \E st \in FailStatuses : FetchDataFail(st)
    \/ \E term \in SearchTerms : SetSearchTerm(term)
    \/ \E mt \in MainTagFilters : SetSelectedMainTag(mt)
    \/ \E i \in 1..MaxLen, confirmed \in BOOLEAN : HandleDeleteGame(i, confirmed)
    \/ \E call \in deletes : DeleteGameOk(call)
    \/ \E call \in deletes, st \in FailStatuses : DeleteGameFail(call, st)
    \/ NextTagsPage
    \/ NextUsersPage
    \/ \E route \in DashboardRoutes : Navigate(route)
    \/ Logout
    \/ PageLoad
    \/ StartupCheck
    \/ LoginStart
    \/ \E r \in LoginResponses : LoginEndpointOk(r)
    \/ \E st \in FailStatuses : LoginEndpointFail(st)

SpecDashboard == Init /\ [][NextDashboard]_vars

(***************************************************************************)
(* The reloads of the three list pages: each page with its filters and     *)
(* with the operations that call its fetch again. On the games page that   *)
(* is a save of the form, here of a new game without an image file.        *)
(***************************************************************************)
NextReloads ==
    \/ \E g \in GameResponses, t \in PageTagResponses : FetchDataOk(g, t)
    \/ \E st \in FailStatuses : FetchDataFail(st)
    \/ \E term \in SearchTerms : SetSearchTerm(term)
    \/ \E mt \in MainTagFilters : SetSelectedMainTag(mt)
    \/ HandleCreateGame
    \/ HandleFormClose
    \/ TagsLoaded(Bare(<<Tag1>>))
    \/ \E st \in FailStatuses : TagsFailed(st)
    \/ \E tx \in Titles : HandleTitleChange(tx)
    \/ HandleSubmit
    \/ SaveOk
    \/ \E st \in FailStatuses : SaveFail(st)
    \/ NextTagsPage
    \/ NextUsersPage
    \/ \E route \in DashboardRoutes : Navigate(route)
    \/ PageLoad

SpecReloads == Init /\ [][NextReloads]_vars

(***************************************************************************)
(* The users page and the tags page, each with the backend: every answer a *)
(* page receives is one the backend gave, from the collection it stored    *)
(* when it answered. A request fails when the backend answers it with an   *)
(* error status instead.                                                   *)
(***************************************************************************)
ServerFailStatuses == FailStatuses \ {Unauthorized}

\* the name the admin types for a new tag
TypedTagName == <<" ", "n">>

NextUsersServer ==
    \/ FetchDataOk(Bare(<<GameA>>), Bare(backend.tags))
    \/ \E route \in {GamesRoute, UsersRoute} : Navigate(route)
    \/ \E call \in usersPage.calls : BackendGetUsers(call)
    \/ \E call \in usersPage.calls : BackendSetSubscription(call)
    \/ \E call \in usersPage.calls :
           call.reply.shape = "array" /\ FetchUsersOk(call, call.reply)
    \/ \E call \in usersPage.calls, st \in ServerFailStatuses :
           call.reply.shape = "none" /\ FetchUsersFail(call, st)
    \/ \E f \in SubscriptionFilters : SetFilterSubscription(f)
    \/ \E i \in 1..MaxLen : HandleSubscriptionToggle(i)
    \/ \E call \in usersPage.calls :
           call.reply.shape = "done" /\ SetSubscriptionOk(call)
    \/ \E call \in usersPage.calls, st \in ServerFailStatuses :
           call.reply.shape = "none" /\ SetSubscriptionFail(call, st)

SpecUsersServer == Init /\ [][NextUsersServer]_vars

NextTagsServer ==
    \/ FetchDataOk(Bare(<<GameA>>), Bare(backend.tags))
    \/ \E route \in {GamesRoute, TagsRoute} : Navigate(route)
    \/ \E call \in tagsPage.calls : BackendGetTags(call)
    \/ \E call \in tagsPage.calls, bt \in BelongsTo \cup {Undefined} :
           BackendCreateTag(call, bt)
    \/ \E call \in tagsPage.calls : BackendDeleteTag(call)
    \/ \E call \in tagsPage.calls :
           call.reply.shape = "array" /\ FetchTagsOk(call, call.reply)
    \/ \E call \in tagsPage.calls, st \in ServerFailStatuses :
           call.reply.shape = "none" /\ FetchTagsFail(call, st)
    \/ ShowCreateForm
    \/ \E bt \in BelongsTo : SetNewTag(TypedTagName, bt)
    \/ HandleCreateTag
    \/ \E call \in tagsPage.calls : call.reply.shape = "done" /\ CreateTagOk(call)
    \/ \E call \in tagsPage.calls, st \in ServerFailStatuses :
           call.reply.shape = "none" /\ CreateTagFail(call, st)
    \/ \E i \in 1..MaxLen : HandleDeleteTag(i, TRUE)
    \/ \E call \in tagsPage.calls : call.reply.shape = "done" /\ DeleteTagOk(call)
    \/ \E call \in tagsPage.calls, st \in ServerFailStatuses :
           call.reply.shape = "none" /\ DeleteTagFail(call, st)

SpecTagsServer == Init /\ [][NextTagsServer]_vars

(***************************************************************************)
(* The image references of the games: the games page loads two games with  *)
(* any two references, and the form opened on a game resolves the game's   *)
(* reference with getImageUrl for its preview.                             *)
(***************************************************************************)
ImagePaths ==
    {<<>>,
     <<"a">>,
     <<"/", "u", "p", "l", "o", "a", "d", "s", "/", "a">>,
     <<"/", "u", "/", "b">>,
     <<"h", "t", "t", "p", ":", "/", "/", "x">>,
     <<"h", "t", "t", "p", "s", ":", "/", "/", "x">>,
     <<"H", "T", "T", "P", ":", "/", "/", "x">>,
     <<"h", "t", "t", "p", ":", "/", "x">>}

GameWithImage(gid, path) ==
    RawGame(gid, Undefined, <<"a">>, <<"x">>, "Game", path, <<>>)

NextImages ==
    \/ \E p \in ImagePaths, q \in ImagePaths :
           FetchDataOk(Bare(<<GameWithImage("g1", p), GameWithImage("g2", q)>>),
                       Bare(<<Tag1>>))
    \/ \E i \in 1..MaxLen : HandleEditGame(i)
    \/ HandleCreateGame
    \/ \E f \in Files : HandleFileSelect(f)
    \/ TagsLoaded(Bare(<<Tag1>>))
    \/ HandleFormClose

SpecImages == Init /\ [][NextImages]_vars

(***************************************************************************)
(* The tag references of the games: the games page loads a game with any   *)
(* references the backend may send, in a bare array or in an envelope, and *)
(* the form opens on it.                                                   *)
(***************************************************************************)
TagRefs == {IdRef("t1"), ObjRef("t2"), ObjRef(Undefined), NullRef, UndefRef}

TagRefLists ==
    {<<>>} \cup {<<r>> : r \in TagRefs} \cup {<<r, q>> : r \in TagRefs, q \in TagRefs}

GameWithTags(refs) ==
    RawGame("g1", Undefined, <<"a">>, <<"x">>, "Game", <<"a">>, refs)

NextOpenForm ==
    \/ \E refs \in TagRefLists :
           FetchDataOk(Bare(<<GameWithTags(refs)>>), Bare(<<Tag1, Tag2>>))
    \/ \E refs \in TagRefLists :
           FetchDataOk(Envelope(<<GameWithTags(refs)>>), Bare(<<Tag1, Tag2>>))
    \/ \E i \in 1..MaxLen : HandleEditGame(i)
    \/ \E i \in 1..MaxLen : HandleTagToggle(i)
    \/ TagsLoaded(Bare(<<Tag1, Tag2>>))
    \/ HandleFormClose

SpecOpenForm == Init /\ [][NextOpenForm]_vars

(***************************************************************************)
(* A game delete with a reload: one delete is in flight at a time, and the *)
(* page reloads when a game created in the form is saved. A reload may     *)
(* fail, with a 401 as well.                                               *)
(***************************************************************************)
NextDeleteWithReload ==
    \/ \E l \in GameLists, t \in PageTagResponses : FetchDataOk(Bare(l), t)
    \/ \E st \in FailStatuses : FetchDataFail(st)
    \/ PageLoad
    \/ \E i \in 1..MaxLen : deletes = {} /\ HandleDeleteGame(i, TRUE)
    \/ \E call \in deletes : DeleteGameOk(call)
    \/ HandleCreateGame
    \/ TagsLoaded(Bare(<<Tag1>>))
    \/ \E tx \in Titles : HandleTitleChange(tx)
    \/ HandleSubmit
    \/ SaveOk
    \/ HandleFormClose

SpecDeleteWithReload == Init /\ [][NextDeleteWithReload]_vars


(***************************************************************************)
(* Properties of the game form and of the page's reload.                   *)
(***************************************************************************)
SaveIssued == submit.payload # NoPayload

\* C1: when a submit has a selected file, its create or update request is
\* issued only once its upload has resolved, and never while the upload is
\* in flight.
C1_UploadBeforeSave ==
    /\ (SaveIssued /\ submit.selectedFile # NoFile) => submit.upload = "resolved"
    /\ submit.upload = "pending" => ~SaveIssued

C1_Witness ==
    /\ SaveIssued
    /\ submit.selectedFile # NoFile
    /\ submit.upload = "resolved"

\* a step in which a request is answered 401 (the interceptor's branch runs)
Step401 == ~navPending /\ navPending'

FetchDataEnds == fetches' < fetches /\ location' = location
SubmitEnds == submit.pc # "idle" /\ submit'.pc = "idle" /\ location' = location

\* C3 as claimed: a 401 failure is handled by the interceptor only; the page
\* or form that issued the request sets no error message and raises no error
\* toast.
C3_NoLocalErrorPath ==
    [][Step401 => (formError' = formError /\ toastError' = toastError)]_vars

\* C3 as amended: a 401 failure runs the interceptor (cookie removed,
\* navigation to the login route started) and is rejected to its caller as
\* well, whose catch runs as for any other failure: fetchData raises its
\* error toast; handleSubmit sets the form's error message, raises its error
\* toast and clears the saving flag.
C3_InterceptedAndRejected ==
    [][Step401 =>
          /\ cookie' = NoToken
          /\ FetchDataEnds => toastError' = FetchFailedToast
          /\ SubmitEnds =>
                /\ formError' = SaveFailedMessage
                /\ toastError' = SaveFailedMessage
                /\ ~formLoading']_vars

C3_Witness ==
    /\ navPending
    /\ cookie = NoToken
    /\ formError = SaveFailedMessage
    /\ toastError = SaveFailedMessage

\* a step in which the upload or the create/update request of a submit fails
SubmitFailureStep ==
    \/ \E st \in FailStatuses : UploadFail(st)
    \/ \E r \in UploadResponses : ~(r.success /\ r.url # <<>>) /\ UploadOk(r)
    \/ \E st \in FailStatuses : SaveFail(st)

\* C4: when the upload or the create/update request of a submit fails, the
\* form stays as open as it was with the draft and the selected file
\* unchanged, an error message is set, no reload is issued, and the saving
\* and uploading flags are cleared.
C4_FailureKeepsDraft ==
    [][SubmitFailureStep =>
          /\ showForm' = showForm /\ selectedGame' = selectedGame
          /\ formData' = formData
          /\ selectedFile' = selectedFile
          /\ formError' # ""
          /\ fetches' = fetches
          /\ ~formLoading' /\ ~uploading'
          /\ submit'.pc = "idle"]_vars

C4_Witness ==
    /\ showForm
    /\ formError = SaveFailedMessage
    /\ selectedFile # NoFile
    /\ formData.additionalTags # <<>>
    /\ ~formLoading
    /\ submit.pc = "idle"

\* a sequence without its null and undefined entries, the others in order
RECURSIVE WithoutNullish(_)
WithoutNullish(s) ==
    IF s = <<>> THEN <<>>
    ELSE IF Head(s).kind \in {"null", "undefined"} THEN WithoutNullish(Tail(s))
    ELSE <<Head(s)>> \o WithoutNullish(Tail(s))

\* C5: a submit works on the draft as it is when the submit starts, and the
\* additionalTags of the create or update payload it sends is that draft's
\* additionalTags without the null and undefined entries, in the same order.
C5_PayloadTagsStripped ==
    [][/\ (submit.pc = "idle" /\ submit'.pc # "idle") => submit'.formData = formData
       /\ submit'.payload # NoPayload =>
             submit'.payload.data.additionalTags
                 = WithoutNullish(submit'.formData.additionalTags)]_vars

C5_Witness ==
    /\ SaveIssued
    /\ \E i \in DOMAIN submit.formData.additionalTags :
           ~NotNullish(submit.formData.additionalTags[i])
    /\ submit.payload.data.additionalTags # <<>>


Editing == showForm /\ selectedGame # NoGame
Creating == showForm /\ selectedGame = NoGame

TagsLoadedStep == \E b \in FormTagResponses : TagsLoaded(b)
TagToggleStep == \E i \in 1..MaxLen : HandleTagToggle(i)

\* while a game is being edited the draft's tag ids change only when the
\* admin toggles one (so a tag load removes none), and an update payload
\* carries every id of its draft
EditKeepsTagIds ==
    /\ (Editing /\ Editing' /\ ~TagToggleStep) =>
           formData'.additionalTags = formData.additionalTags
    /\ (submit'.payload # NoPayload /\ submit'.game # NoGame) =>
           \A r \in Range(submit'.formData.additionalTags) :
               NotNullish(r) => r \in Range(submit'.payload.data.additionalTags)

C2_UnauthenticatedAfter401 ==
    [][/\ Step401 => cookie' = NoToken
       /\ (navPending /\ ~navPending') => location' = LoginRoute
       /\ (authLoading /\ ~authLoading') =>
              (cookie' = NoToken /\ ~isAuthenticated')]_vars

\* C6: no game of the source collection has a null or undefined entry in
\* its additionalTags.
C6_NoNullishTags ==
    \A i \in DOMAIN games :
        \A j \in DOMAIN games[i].additionalTags :
            NotNullish(games[i].additionalTags[j])

\* C8: when the request of a confirmed delete succeeds, the source
\* collection becomes the source collection of just before without the
\* records of the deleted id, the others in order; when no record has that
\* id the source and visible collections stay as they are.
C8_DeleteRemovesExactlyTheId ==
    [][\A call \in deletes :
          DeleteGameOk(call) =>
              /\ games' = SelectSeq(games, LAMBDA g : g._id # call.gameId)
              /\ (\A i \in DOMAIN games : games[i]._id # call.gameId) =>
                     (games' = games /\ filteredGames' = filteredGames)]_vars

\* a text contains a search text, letters compared without their case
LowerHas(text, term) ==
    \E i \in 0..Len(text) :
        /\ i + Len(term) <= Len(text)
        /\ \A k \in 1..Len(term) : Lower(text[i + k]) = Lower(term[k])

GameShown(g, term, sel) ==
    /\ LowerHas(g.title, term) \/ LowerHas(g.description, term)
    /\ sel = "all" \/ g.mainTag = sel

RECURSIVE GamesShown(_, _, _)
GamesShown(src, term, sel) ==
    IF src = <<>> THEN <<>>
    ELSE (IF GameShown(Head(src), term, sel) THEN <<Head(src)>> ELSE <<>>)
             \o GamesShown(Tail(src), term, sel)

UserShown(u, term, sel) ==
    /\ LowerHas(u.username, term) \/ LowerHas(u.email, term) \/ LowerHas(u._id, term)
    /\ \/ sel = "all"
       \/ sel = "subscribed" /\ u.isSubscribed
       \/ sel = "unsubscribed" /\ ~u.isSubscribed

RECURSIVE UsersShown(_, _, _)
UsersShown(src, term, sel) ==
    IF src = <<>> THEN <<>>
    ELSE (IF UserShown(Head(src), term, sel) THEN <<Head(src)>> ELSE <<>>)
             \o UsersShown(Tail(src), term, sel)

RECURSIVE TagsShown(_, _)
TagsShown(src, term) ==
    IF src = <<>> THEN <<>>
    ELSE (IF LowerHas(Head(src).name, term) THEN <<Head(src)>> ELSE <<>>)
             \o TagsShown(Tail(src), term)

\* C10: on each list page the visible collection is the source collection's
\* records that contain the search text, case ignored, in a searched field
\* and that match the selector, in the source's order; with an empty search
\* text and the selector at "all" it is the source collection.
C10_VisibleIsFilteredSource ==
    /\ filteredGames = GamesShown(games, searchTerm, selectedMainTag)
    /\ (searchTerm = <<>> /\ selectedMainTag = "all") => filteredGames = games
    /\ usersPage.filteredUsers =
           UsersShown(usersPage.users, usersPage.searchTerm,
                      usersPage.filterSubscription)
    /\ (usersPage.searchTerm = <<>> /\ usersPage.filterSubscription = "all") =>
           usersPage.filteredUsers = usersPage.users
    /\ tagsPage.filteredTags = TagsShown(tagsPage.tags, tagsPage.searchTerm)
    /\ tagsPage.searchTerm = <<>> => tagsPage.filteredTags = tagsPage.tags

\* after a delete the games page shows, for the search text "B", the game
\* whose title is "b"
C10_Witness ==
    /\ location = GamesRoute
    /\ Len(games) = 1
    /\ games[1]._id = "g2"
    /\ searchTerm = <<"B">>
    /\ selectedMainTag = "Software"
    /\ filteredGames = games

\* C9: when a reload of the games, tags or users list fails, the page's
\* source and visible collections stay as they are and an error is
\* reported: the toast of the games page, the error message of the tags
\* and users pages.
C9_FailedReloadKeepsLists ==
    [][/\ (\E st \in FailStatuses : FetchDataFail(st)) =>
              /\ games' = games /\ filteredGames' = filteredGames
              /\ toastError' = FetchFailedToast
       /\ (\E call \in tagsPage.calls, st \in FailStatuses : FetchTagsFail(call, st)) =>
              /\ tagsPage'.tags = tagsPage.tags
              /\ tagsPage'.filteredTags = tagsPage.filteredTags
              /\ tagsPage'.error = TagsFetchFailed
       /\ (\E call \in usersPage.calls, st \in FailStatuses : FetchUsersFail(call, st)) =>
              /\ usersPage'.users = usersPage.users
              /\ usersPage'.filteredUsers = usersPage.filteredUsers
              /\ usersPage'.error = UsersFetchFailed]_vars

\* the tags page after a reload failed: the error is reported, the source
\* collection it had loaded is there and so is its filtered view
C9_Witness ==
    /\ location = TagsRoute
    /\ tagsPage.error = TagsFetchFailed
    /\ tagsPage.tags # <<>>
    /\ tagsPage.filteredTags # <<>>
    /\ tagsPage.filteredTags # tagsPage.tags


(***************************************************************************)
(* Further properties of the game form.                                    *)
(***************************************************************************)
\* C12: when the create or update request of a submit succeeds, the list
\* page is notified and issues exactly one reload, and the form closes, all
\* in that step; nothing else the form does issues a reload.
C12_SaveReloadsOnceAndCloses ==
    [][/\ SaveOk =>
              /\ fetches' = fetches + 1
              /\ ~showForm' /\ selectedGame' = NoGame
              /\ submit'.pc = "idle" /\ ~formLoading'
       /\ fetches' > fetches => (submit.pc = "saving" /\ showForm' = FALSE)]_vars

\* the form closed by a save whose reload is in flight
C12_Witness ==
    /\ ~showForm
    /\ ~gamesLoading
    /\ fetches = 1
    /\ submit.pc = "idle"
    /\ games # <<>>

(***************************************************************************)
(* Properties of AuthProvider.login and ApiClient.login.                   *)
(***************************************************************************)
\* a step in which AuthProvider.login returns
LoginReturns == loginCall.pc = "probing" /\ loginCall'.result # "none"

\* C13: AuthProvider.login sets the authenticated flag and returns true when
\* the response it got carries a success flag or a token, and only then; in
\* every other case, a rejection of ApiClient.login included, it returns
\* false, throws nothing, stores no token and leaves the flag as it is.
C13_LoginTrueOnlyOnSuccessOrToken ==
    [][/\ \A r \in LoginResponses :
              LoginEndpointOk(r) =>
                  IF r.success \/ r.token # Undefined
                  THEN /\ loginCall'.result = "true"
                       /\ isAuthenticated'
                       /\ cookie' # NoToken
                  ELSE /\ loginCall'.result = "false"
                       /\ isAuthenticated' = isAuthenticated
                       /\ cookie' = cookie
       /\ LoginReturns =>
              /\ loginCall'.result \in {"true", "false"}
              /\ loginCall'.outcome = "rejected" =>
                     /\ loginCall'.result = "false"
                     /\ isAuthenticated' = isAuthenticated
                     /\ cookie' \in {cookie, NoToken}
              /\ loginCall'.result = "false" =>
                     /\ isAuthenticated' = isAuthenticated
                     /\ cookie' \in {cookie, NoToken}
       /\ (loginCall.pc = "probing" /\ isAuthenticated' /\ ~isAuthenticated) =>
              loginCall'.result = "true"]_vars

\* the login returned false because every endpoint failed, and the session
\* is as it was: no token, not authenticated
C13_Witness ==
    /\ loginCall.outcome = "rejected"
    /\ loginCall.result = "false"
    /\ ~isAuthenticated
    /\ cookie = NoToken
    /\ ~navPending

\* C14: ApiClient.login posts to the candidate endpoints in their order, one
\* after a failure of the one before; the first success ends it with that
\* response and no later candidate is contacted; it rejects only when the
\* fifth candidate has failed.
C14_EndpointsInOrderUntilFirstSuccess ==
    [][/\ loginCall.tried = SubSeq(LoginEndpoints, 1, Len(loginCall.tried))
       /\ (loginCall.pc = "idle" /\ loginCall'.pc = "probing") =>
              loginCall'.tried = <<LoginEndpoints[1]>>
       /\ (loginCall.pc = "probing" /\ loginCall'.pc = "probing") =>
              /\ Len(loginCall.tried) < Len(LoginEndpoints)
              /\ loginCall'.tried =
                     Append(loginCall.tried, LoginEndpoints[Len(loginCall.tried) + 1])
       /\ \A r \in LoginResponses :
              LoginEndpointOk(r) =>
                  /\ loginCall'.pc = "idle"
                  /\ loginCall'.outcome = "resolved"
                  /\ loginCall'.tried = loginCall.tried
       /\ (loginCall.pc = "idle" /\ loginCall'.tried # loginCall.tried) =>
              (loginCall'.pc = "probing" \/ loginCall'.tried = <<>>)
       /\ (loginCall.pc = "probing" /\ loginCall'.outcome = "rejected") =>
              loginCall.tried = LoginEndpoints]_vars

\* the third candidate succeeded after the first two failed
C14_Witness ==
    /\ loginCall.pc = "idle"
    /\ loginCall.outcome = "resolved"
    /\ loginCall.tried = SubSeq(LoginEndpoints, 1, 3)

\* the session is at rest: the startup check has run and no navigation
\* started by a 401 is pending
SessionAtRest == ~authLoading /\ ~navPending

\* C15: once the startup check has run, after every login or logout and
\* after every 401 handling, which ends with the login route loaded and its
\* startup check run, the authenticated flag is true exactly when an
\* admin_token cookie exists.
C15_FlagIffToken ==
    SessionAtRest => (isAuthenticated <=> cookie # NoToken)

\* a login answered with a success flag and no token: the flag is set and the
\* fallback token is stored
C15_Witness ==
    /\ SessionAtRest
    /\ isAuthenticated
    /\ cookie = "authenticated"
    /\ loginCall.result = "true"

(***************************************************************************)
(* Properties of the pages with the backend.                               *)
(***************************************************************************)
\* what identifies the records of a collection and their listed fields
TagKeys(ts) == [i \in DOMAIN ts |-> <<ts[i]._id, ts[i].name, ts[i].belongsTo>>]
UserKeys(us) == [i \in DOMAIN us |-> <<us[i]._id, us[i].isSubscribed>>]

\* a reload is issued in this step by the tags page, by the users page
TagsReloadIssued ==
    \E c \in tagsPage'.calls \ tagsPage.calls : c.op = "getAdditionalTags"
UsersReloadIssued ==
    \E c \in usersPage'.calls \ usersPage.calls : c.op = "getUsers"

\* C11: when a create or update of a game, a create or delete of a tag, or a
\* subscription update succeeds, a reload of the list is issued; a reload
\* that succeeds with the collection the backend stores after its last
\* mutation makes the source collection that collection; and a source
\* collection that equals the backend's stays equal to it when a reload
\* succeeds, as long as the backend applies no further mutation.
C11_ReloadMatchesBackend ==
    [][/\ SaveOk => fetches' = fetches + 1
       /\ \A call \in tagsPage.calls :
              /\ (call.reply.shape = "done" /\ (CreateTagOk(call) \/ DeleteTagOk(call)))
                     => TagsReloadIssued
              /\ (/\ call.reply.shape = "array"
                  /\ FetchTagsOk(call, call.reply)
                  /\ \/ call.reply.data = backend.tags
                     \/ TagKeys(tagsPage.tags) = TagKeys(backend.tags))
                     => TagKeys(tagsPage'.tags) = TagKeys(backend.tags)
       /\ \A call \in usersPage.calls :
              /\ (call.reply.shape = "done" /\ SetSubscriptionOk(call))
                     => UsersReloadIssued
              /\ (/\ call.reply.shape = "array"
                  /\ FetchUsersOk(call, call.reply)
                  /\ \/ call.reply.data = backend.users
                     \/ UserKeys(usersPage.users) = UserKeys(backend.users))
                     => UserKeys(usersPage'.users) = UserKeys(backend.users)]_vars

\* the subscription updates the backend applied for the user `id`
AppliedTo(id) == SelectSeq(backend.applied, LAMBDA e : e.id = id)

\* the latest subscription update the backend applied
LastApplied == backend.applied[Len(backend.applied)]

\* The first toggle of the user in row i has completed with its reload, and
\* nothing has failed since: the backend applied it as its latest update and
\* it changed the stored value, no request is in flight, and no error is
\* reported.
FirstToggleDone(i) ==
    /\ usersPage.calls = {}
    /\ usersPage.error = ""
    /\ backend.applied # <<>>
    /\ LastApplied.id = usersPage.filteredUsers[i]._id
    /\ Len(AppliedTo(LastApplied.id)) = 1
    /\ LastApplied.before # LastApplied.isSubscribed

\* C16: a second toggle of a user, started after the first toggle of that
\* user and its reload have completed, asks the backend for the value the
\* user had before the first toggle, which the backend then stores and the
\* next reload returns.
C16_SecondToggleRestores ==
    [][/\ \A i \in 1..MaxLen :
              (HandleSubscriptionToggle(i) /\ FirstToggleDone(i)) =>
                  \A c \in usersPage'.calls \ usersPage.calls :
                      c.isSubscribed = LastApplied.before
       /\ \A call \in usersPage.calls :
              BackendSetSubscription(call) =>
                  subscribedAt(backend'.users, call.userId) = call.isSubscribed
       /\ \A call \in usersPage.calls :
              BackendGetUsers(call) =>
                  \E c \in usersPage'.calls : c.reply = Bare(backend.users)]_vars

\* C17: the request of a tag creation carries the trimmed name and the
\* category selected in the create form, so the tag the backend stores, and
\* every later reload lists, has that name and belongs to that category.
C17_CreateCarriesNameAndCategory ==
    [][\A call \in tagsPage.calls : \A ifAbsent \in BelongsTo \cup {Undefined} :
           BackendCreateTag(call, ifAbsent) =>
               LET body == createAdditionalTag(call.name)
                   tag == backend'.tags[Len(backend'.tags)]
               IN  /\ body.name = trim(tagsPage.newTagName)
                   /\ "belongsTo" \in DOMAIN body
                   /\ tag.name = call.name
                   /\ tag.belongsTo = call.belongsTo
                   /\ Cardinality({k \in DOMAIN backend'.tags :
                                      backend'.tags[k]._id = tag._id}) = 1]_vars

(***************************************************************************)
(* Properties of the upload and of Cancel.                                 *)
(***************************************************************************)
\* an upload response handleSubmit accepts
Accepted(r) == r.success /\ r.url # <<>>

\* C18: when a file is selected and its upload succeeds, the imageUrl of the
\* create or update payload is the URL the upload returned, and is neither
\* the object URL of the preview nor the imageUrl the draft had.
C18_PayloadCarriesUploadedUrl ==
    [][\A r \in UploadResponses :
           (UploadOk(r) /\ Accepted(r)) =>
               /\ submit'.pc = "saving"
               /\ submit'.payload.data.imageUrl = r.url
               /\ submit'.payload.data.imageUrl # objectUrl(submit.selectedFile)
               /\ submit'.payload.data.imageUrl # submit.formData.imageUrl
               /\ submit'.payload.data.imageUrl # previewUrl]_vars

C18_Witness ==
    /\ submit.pc = "saving"
    /\ submit.selectedFile # NoFile
    /\ submit.upload = "resolved"
    /\ submit.formData.imageUrl # <<>>
    /\ submit.payload.op = "update"
    /\ submit.payload.data.imageUrl = UploadUrl

\* C19: when the upload response lacks a true success flag or a non-empty
\* URL, the submit fails as for a failed upload: no create or update request
\* is issued, the error message is set, and no reload is issued.
C19_RefusedUploadSendsNothing ==
    [][\A r \in UploadResponses :
           (UploadOk(r) /\ ~Accepted(r)) =>
               /\ submit'.pc = "idle"
               /\ submit'.payload = NoPayload
               /\ formError' = SaveFailedMessage
               /\ toastError' = SaveFailedMessage
               /\ ~formLoading' /\ ~uploading'
               /\ fetches' = fetches]_vars

\* the state a refused upload of an edited game leaves
C19_Witness ==
    /\ showForm
    /\ selectedGame # NoGame
    /\ selectedFile # NoFile
    /\ formError = SaveFailedMessage
    /\ submit = IdleSubmit
    /\ ~formLoading /\ ~uploading
    /\ fetches = 0

\* C20: Cancel is available in every open state of the form, whether no
\* submit, an upload or a create/update request is in flight, and closes the
\* form; the next open in create mode starts from the empty defaults with no
\* file selected and no error shown.
C20_CancelClosesAndDiscards ==
    [][/\ FormInteractive => ENABLED HandleFormClose
       /\ HandleFormClose =>
              /\ ~showForm' /\ selectedGame' = NoGame
              /\ selectedFile' = NoFile /\ previewUrl' = <<>> /\ formError' = ""
       /\ HandleCreateGame =>
              /\ showForm' /\ selectedGame' = NoGame
              /\ formData' = EmptyForm
              /\ selectedFile' = NoFile /\ previewUrl' = <<>>
              /\ formError' = ""]_vars

\* the form reopened in create mode after Cancel during an upload, which is
\* still in flight
C20_Witness ==
    /\ showForm /\ selectedGame = NoGame
    /\ formData = EmptyForm
    /\ selectedFile = NoFile
    /\ formError = ""
    /\ submit.pc = "uploading"
    /\ submit.formData # EmptyForm

(***************************************************************************)
(* Properties of the record operations of the list pages.                  *)
(***************************************************************************)
\* C21: when the admin declines the confirmation of a game delete or of a
\* tag delete, no delete request is sent and the source collection, the
\* visible collection and the in-flight indicator stay as they are.
C21_DeclinedDeleteChangesNothing ==
    [][\A i \in 1..MaxLen :
           /\ HandleDeleteGame(i, FALSE) =>
                  /\ deletes' = deletes
                  /\ games' = games /\ filteredGames' = filteredGames
           /\ HandleDeleteTag(i, FALSE) =>
                  /\ tagsPage'.calls = tagsPage.calls
                  /\ tagsPage'.tags = tagsPage.tags
                  /\ tagsPage'.filteredTags = tagsPage.filteredTags
                  /\ tagsPage'.deletingId = tagsPage.deletingId]_vars

\* a delete of one tag is in flight while the delete of another tag, which
\* the admin can decline, is offered; so is the delete of a game
C21_Witness ==
    \/ /\ TagsInteractive
       /\ tagsPage.deletingId # NoId
       /\ \E i \in DOMAIN tagsPage.filteredTags :
              tagsPage.filteredTags[i]._id # tagsPage.deletingId
    \/ /\ GamesInteractive
       /\ deletes # {}
       /\ \E i \in DOMAIN filteredGames :
              \A call \in deletes : call.gameId # filteredGames[i].id

(***************************************************************************)
(* Properties of getImageUrl.                                              *)
(***************************************************************************)
\* the configured base without its trailing slash
BaseWithoutSlash == <<"h", "t", "t", "p", ":", "/", "/", "h">>
UploadsDir == <<"/", "u", "p", "l", "o", "a", "d", "s", "/">>

IsAbsolute(path) ==
    \/ Len(path) >= 7 /\ SubSeq(path, 1, 7) = <<"h", "t", "t", "p", ":", "/", "/">>
    \/ Len(path) >= 8
       /\ SubSeq(path, 1, 8) = <<"h", "t", "t", "p", "s", ":", "/", "/">>

\* the URL stated for a reference: itself when absolute, under the base when
\* it starts with "/", under the base's uploads directory otherwise
StatedImageUrl(path) ==
    IF IsAbsolute(path) THEN path
    ELSE IF path # <<>> /\ Head(path) = "/" THEN BaseWithoutSlash \o path
    ELSE BaseWithoutSlash \o UploadsDir \o path

\* the form opens on the game of card i, and its preview is resolved
PreviewResolved(i) == HandleEditGame(i)

\* C22 as stated: an http:// or https:// reference is returned unchanged, a
\* reference starting with "/" is appended to the base without its trailing
\* slash, and every other string is resolved under the base's /uploads/.
C22_ImageUrlOfEveryString ==
    [][\A i \in 1..MaxLen :
           PreviewResolved(i) =>
               previewUrl' = StatedImageUrl(filteredGames[i].imageUrl)]_vars

\* C22: as stated for every reference but the empty one, for which the
\* result is empty; a bare name and the same name under /uploads/ resolve
\* to the same URL.
C22_ImageUrlOfNonEmptyString ==
    [][\A i \in 1..MaxLen :
           PreviewResolved(i) =>
               LET path == filteredGames[i].imageUrl
               IN  /\ path # <<>> => previewUrl' = StatedImageUrl(path)
                   /\ path = <<>> => previewUrl' = <<>>
                   /\ (path # <<>> /\ ~IsAbsolute(path) /\ Head(path) # "/")
                          => previewUrl' = getImageUrl(UploadsDir \o path)]_vars

\* the preview of a game whose reference is a bare name
C22_Witness ==
    /\ showForm /\ selectedGame # NoGame
    /\ selectedGame.imageUrl = <<"a">>
    /\ previewUrl = BaseWithoutSlash \o UploadsDir \o <<"a">>

(***************************************************************************)
(* Properties of AuthProvider.logout.                                      *)
(***************************************************************************)
\* C23: logout removes the persisted admin_token and sets the authenticated
\* flag to false in one step, whatever token the session holds, and sends
\* no request: no call of the API client is in flight after it and the
\* backend is left as it is.
C23_LogoutClearsSessionAtOnce ==
    [][Logout =>
           /\ cookie' = NoToken
           /\ ~isAuthenticated'
           /\ loginCall' = loginCall
           /\ fetches' = 0 /\ tagFetches' = 0 /\ deletes' = {}
           /\ submit'.pc = "idle"
           /\ tagsPage'.calls = {} /\ usersPage'.calls = {}
           /\ backend' = backend]_vars

\* the state a logout leaves: on the login route, with no token, the flag
\* false and no login attempted yet
C23_Witness ==
    /\ location = LoginRoute
    /\ cookie = NoToken
    /\ ~isAuthenticated
    /\ ~authLoading /\ ~navPending
    /\ loginCall = IdleLogin
    /\ tagsPage = TagsPageInit /\ usersPage = UsersPageInit

(***************************************************************************)
(* Properties of the in-flight indicators of the users and tags pages.     *)
(***************************************************************************)
\* the records with a toggle, or a tag delete, that has not completed: its
\* request, or the reload its handler awaits, is in flight
UsersInFlight ==
    {c.userId : c \in {d \in usersPage.calls : d.by = "handleSubscriptionToggle"}}
TagsInFlight ==
    {c.id : c \in {d \in tagsPage.calls : d.by = "handleDeleteTag"}}

\* C24: a record with a subscription toggle or a tag delete in flight shows
\* the in-flight indicator and has its control disabled until the operation
\* completes, whatever starts or completes on other records meanwhile; a
\* record without an operation in flight has its control enabled.
C24_IndicatorPerRecordInFlight ==
    /\ \A id \in UsersInFlight : usersPage.updatingUserId = id
    /\ \A id \in TagsInFlight : tagsPage.deletingId = id
    /\ usersPage.updatingUserId # NoUserId =>
           usersPage.updatingUserId \in UsersInFlight
    /\ tagsPage.deletingId # NoId => tagsPage.deletingId \in TagsInFlight

(***************************************************************************)
(* Properties of overlapping fetches of one list.                          *)
(***************************************************************************)
\* C25: every answer of a list fetch that resolves becomes the source
\* collection, whether other fetches of the list are in flight or resolved
\* before it; so after two overlapping fetches the source collection is the
\* payload of the one that resolved last, in whichever order they were
\* issued.
C25_LastResolvedWins ==
    [][/\ \A call \in usersPage.calls :
              (call.reply.shape = "array" /\ FetchUsersOk(call, call.reply)) =>
                  UserKeys(usersPage'.users) = UserKeys(call.reply.data)
       /\ \A call \in tagsPage.calls :
              (call.reply.shape = "array" /\ FetchTagsOk(call, call.reply)) =>
                  TagKeys(tagsPage'.tags) = TagKeys(call.reply.data)]_vars

\* both of two overlapping fetches have resolved, the one answered first
\* last: the list shown is its payload, which the backend has replaced since
C25_Witness ==
    /\ usersPage.calls = {}
    /\ usersPage.error = ""
    /\ ~usersPage.loading
    /\ Len(backend.applied) = 2
    /\ usersPage.users # <<>>
    /\ UserKeys(usersPage.users) # UserKeys(backend.users)

(***************************************************************************)
(* Properties of the draft the form opens with.                            *)
(***************************************************************************)
\* the references as bare ids: null and undefined dropped, the id of every
\* other reference, in order
BareIdsOf(refs) ==
    LET kept == WithoutNullish(refs)
    IN  [k \in DOMAIN kept |-> IdRef(kept[k].id)]

\* C26: when the form opens for an existing game, the draft's additionalTags
\* are the game's references as bare ids: every entry is an id string, every
\* tag object is replaced by its id, null and undefined entries are dropped,
\* and the order of the others is kept.
C26_DraftTagsAreBareIds ==
    [][\A i \in 1..MaxLen :
           HandleEditGame(i) =>
               /\ \A k \in DOMAIN formData'.additionalTags :
                      /\ formData'.additionalTags[k].kind = "id"
                      /\ formData'.additionalTags[k].id # Undefined
               /\ formData'.additionalTags =
                      BareIdsOf(filteredGames[i].additionalTags)]_vars

(***************************************************************************)
(* Properties of the groups of the tags list.                              *)
(***************************************************************************)
\* C27: a tag without an owning category belongs to "Game": the tags list
\* shows it in the "Game" group, whose count includes it, and in no other
\* group.
C27_AbsentCategoryCountsAsGame ==
    LET ts == tagsPage.filteredTags
        asGame == {k \in DOMAIN ts : ts[k].belongsTo \in {"Game", Undefined}}
    IN  /\ Len(groupedTags(ts, "Game")) = Cardinality(asGame)
        /\ \A k \in DOMAIN ts :
               ts[k].belongsTo = Undefined => groupOf(ts[k]) = "Game"
        /\ tagGroups(ts) \subseteq BelongsTo

(***************************************************************************)
(* Properties of a game delete that a reload overtakes.                    *)
(***************************************************************************)
\* C28: when a delete succeeds, also after a reload has resolved while it
\* was in flight, the source collection becomes the collection of just
\* before, which is the reloaded one, without the deleted record: every
\* other record the reload delivered is kept, and no record the reload
\* dropped comes back.
C28_DeleteKeepsReloadedCollection ==
    [][\A call \in deletes :
           (deletes = {call} /\ DeleteGameOk(call)) =>
               /\ \A g \in Range(games) :
                      g._id # call.gameId => g \in Range(games')
               /\ \A g \in Range(games') : g \in Range(games)
               /\ \A g \in Range(games') : g._id # call.gameId]_vars

(***************************************************************************)
(* Properties of the submit control.                                       *)
(***************************************************************************)
\* the submit button is disabled
SubmitDisabled == formLoading \/ uploading

\* C29: from the start of a submit to its end the submit control is
\* disabled; a submit starts only when none is in flight, so the form has
\* at most one upload or create/update request in flight, and a submit
\* sends its create or update request once.
C29_OneSubmitAtATime ==
    [][/\ submit.pc # "idle" => SubmitDisabled
       /\ submit'.pc # "idle" => SubmitDisabled'
       /\ HandleSubmit => (submit.pc = "idle" /\ submit'.pc # "idle")
       /\ submit.pc = "uploading" => submit.payload = NoPayload
       /\ submit.payload # NoPayload =>
              submit'.payload \in {submit.payload, NoPayload}]_vars

\* the upload of a submit is over and its update request is in flight, in a
\* form the admin closed and opened again meanwhile: the control is disabled
C29_Witness ==
    /\ showForm
    /\ submit.pc = "saving"
    /\ submit.upload = "resolved"
    /\ formLoading /\ ~uploading
    /\ selectedFile = NoFile

(***************************************************************************)
(* Properties of the games page's reload.                                  *)
(***************************************************************************)
\* C30: a reload of the games page ends in one of two ways. When both
\* requests succeed, the games and the tags collections are replaced by the
\* two responses; when the reload fails, as it does when either request
\* fails, both collections stay as they are. loading is false after either.
C30_GamesAndTagsTogether ==
    [][fetches' < fetches =>
           /\ \A g \in GameResponses, t \in PageTagResponses :
                  FetchDataOk(g, t) =>
                      /\ games' = collectionOf(getGames(g))
                      /\ tags' = collectionOf(getAdditionalTags(t))
                      /\ ~gamesLoading'
           /\ \A st \in FailStatuses :
                  FetchDataFail(st) =>
                      /\ games' = games /\ tags' = tags
                      /\ ~gamesLoading'
           /\ location' = location =>
                  \/ games' = games /\ tags' = tags
                  \/ \E g \in GameResponses, t \in PageTagResponses :
                         /\ games' = collectionOf(getGames(g))
                         /\ tags' = collectionOf(getAdditionalTags(t))]_vars

\* a reload failed after the page had loaded games and tags: both are there
C30_Witness ==
    /\ location = GamesRoute /\ ~navPending
    /\ games # <<>> /\ tags # <<>>
    /\ toastError = FetchFailedToast
    /\ ~gamesLoading
    /\ fetches = 0

=============================================================================
